---- MODULE Spec2Model ----
(***************************************************************************)
(* A model of the fl-language compiler front end: the module resolver and  *)
(* driver of flc.py (discover_modules, compile_file, main) and the lexer   *)
(* of fl/lexer.py.                                                         *)
(*                                                                         *)
(* File paths are sequences of path segments relative to the directory of  *)
(* the entry file (entry_dir); the file <<"d", "a">> is entry_dir/d/a.fl.  *)
(* An import path is the list of identifiers of an adopt statement; its    *)
(* dotted path ('.'.join) is modelled by the list itself, which is         *)
(* injective because identifiers hold no dot.                              *)
(***************************************************************************)
EXTENDS Integers, Sequences, FiniteSets, TLC

VARIABLES
    \* ---- the file system (an input of the run, never written by it)
    fsExists,       \* which files exist, as far as the run has asked
    fsContent,      \* what parse() makes of each file read so far
    nAdopts,        \* the adopt statements in the files read so far
    \* ---- flc.py: compile_file / discover_modules
    pc,             \* where the driver is
    call,           \* the pending call visit(dotted_path, file_path)
    stack,          \* the active visit() frames, innermost last
    visited,        \* discover_modules: visited
    ordered,        \* discover_modules: ordered
    modules,        \* compile_file: modules
    exitCause,      \* why the process exited with status 1
    \* ---- what the run did to the outside world
    lookups,        \* the import resolutions made by visit(), in order, each
                    \* with the paths it handed to os.path.exists
    reads,          \* the files opened and read, in order
    parses,         \* the files whose source was handed to parse(), in order
    codegenInvoked, \* CodeGen.generate_program was called
    outputWritten,  \* the output file was written
    \* ---- fl/lexer.py: one Lexer and its call of tokenize()
    source,         \* Lexer.source, a sequence of characters
    pos,            \* Lexer.pos (0-based, as in the code)
    line,           \* Lexer.line
    col,            \* Lexer.col
    tokens,         \* tokenize: tokens
    lexState,       \* "scanning", "returned", or the exception raised
    errLine,        \* LexerError.line
    errCol,         \* LexerError.col
    parseState,     \* "idle", "ready", or how the Parser method ended
    ast,            \* the node returned, or the ParseError raised
    parserPos,      \* Parser.pos
    savedPos,       \* Parser.pos before the method was called
    lookahead       \* what _is_closure returned

resolverVars == <<fsExists, fsContent, nAdopts, pc, call, stack, visited, ordered,
                  modules, exitCause, lookups, reads, parses,
                  codegenInvoked, outputWritten>>

lexerVars == <<source, pos, line, col, tokens, lexState, errLine, errCol>>

parserVars == <<parseState, ast, parserPos, savedPos, lookahead>>

vars == <<resolverVars, lexerVars, parserVars>>

----------------------------------------------------------------------------
(* Bounds of the model *)

\* The adopt statements of a program, counted over all its files.
MaxAdopts == 4

\* The length of the source text handed to the lexer.
MaxSrcLen == 3

\* The length of a source text of digits, dots and letters.
MaxNumLen == 5

\* The binary operators of an expression statement.
MaxOps == 2
\* the fragments that follow the '(' in a source text of parentheses
MaxParen == 3
\* the operations after the first operand of a closure's body
MaxBody == 2
\* the fragments after the '{' of a raw block
MaxRaw == 4
\* the fragments of a source text of statements, well-formed or not
MaxSoup == 3
\* the constructs wrapped around a class definition
MaxWrap == 1
\* the operators, each with its right-hand side, after an expression
MaxAssign == 2

\* fragments after 'native=>{' in the texts the lexer may reject
MaxReject == 3

SeqsUpTo(S, n) == UNION {[1..k -> S] : k \in 0..n}

RECURSIVE Range(_)
Range(s) == IF s = <<>> THEN {} ELSE {s[1]} \cup Range(Tail(s))

Front(s) == SubSeq(s, 1, Len(s) - 1)

Last(s) == s[Len(s)]

----------------------------------------------------------------------------
(* The file system the runs are checked on *)

EntryFile == <<"main">>

MainDotted == <<"__main__">>

FileUniverse ==
    { <<"main">>, <<"b">>, <<"d", "a">>, <<"d", "b">>,
      <<"e", "a">>, <<"e", "b">>, <<"io">> }

ImportPaths ==
    { <<"b">>, <<"d", "a">>, <<"e", "a">>, <<"io">>, <<"main">> }

\* What parse(source, file_path) makes of a file: a LexerError, a ParseError,
\* or a Module, of which the resolver reads the adopt statements only.
Unread == [err |-> "unread", imports |-> <<>>]

Contents(maxLen) ==
    {[err |-> e, imports |-> <<>>] : e \in {"lex", "parse"}}
    \cup {[err |-> "none", imports |-> s] : s \in SeqsUpTo(ImportPaths, maxLen)}

----------------------------------------------------------------------------
(* fl/stdlib.py *)

STDLIB_MODULES == {"io", "math", "str", "arr"}

\* is_stdlib with the 'io' entry lost from the table
is_stdlib_NoIo(module_name) == module_name \in STDLIB_MODULES \ {"io"}

is_stdlib(module_name) == module_name \in STDLIB_MODULES

----------------------------------------------------------------------------
(* fl/lexer.py.  A character is a string; "sup2" stands for the single     *)
(* character U+00B2 (superscript two), for which str.isdigit() is true and *)
(* int() raises ValueError, and "NUL" for the character '\0'.              *)

Alphabet ==
    {" ", "\t", "\r", "\n", "#", "\"", "\\", "a", "1", "=", ">", ".", "&",
     "|", ";", "sup2"}

DecimalDigits == <<"0", "1", "2", "3", "4", "5", "6", "7", "8", "9">>

\* str.isdigit(): the decimal digits and the other digit characters
IsDigit(ch) == ch \in Range(DecimalDigits) \cup {"sup2"}

\* str.isalpha()
IsAlpha(ch) ==
    ch \in {"a", "b", "c", "d", "e", "f", "g", "h", "i", "k", "l", "m",
            "n", "o", "p", "r", "s", "t", "u", "v", "x", "y", "E", "S",
            "Y", "N", "O"}

\* str.isalnum()
IsAlnum(ch) == IsAlpha(ch) \/ IsDigit(ch)

\* skip_whitespace taking the newline for whitespace too
IsSpace_Newline(ch) == ch \in {" ", "\t", "\r", "\n"}

\* ch in (' ', '\t', '\r')
IsSpace(ch) == ch \in {" ", "\t", "\r"}

\* fl/tokens.py: KEYWORDS
KEYWORDS ==
    [adopt |-> "ADOPT", keep |-> "KEEP", share |-> "SHARE", go |-> "GO",
     by |-> "BY", stay |-> "STAY", if |-> "IF", else |-> "ELSE",
     return |-> "RETURN", boy |-> "BOY", makeout |-> "MAKEOUT",
     native |-> "NATIVE", to |-> "TO", YES |-> "YES", NO |-> "NO"]

RECURSIVE Join(_)
Join(text) == IF text = <<>> THEN "" ELSE text[1] \o Join(Tail(text))

\* KEYWORDS.get(text, TokenType.IDENT)
KeywordType(text) ==
    LET w == Join(text)
    IN  IF w \in DOMAIN KEYWORDS THEN KEYWORDS[w] ELSE "IDENT"

\* Lexer.peek(offset) at cursor p: '\0' past the end
Peek(src, p, offset) ==
    IF p + offset < Len(src) THEN src[p + offset + 1] ELSE "NUL"

\* Lexer.advance with the column left running over a newline
Advance_NoColReset(src, st) ==
    IF src[st.pos + 1] = "\n"
      THEN [pos |-> st.pos + 1, line |-> st.line + 1, col |-> st.col + 1]
      ELSE [pos |-> st.pos + 1, line |-> st.line, col |-> st.col + 1]

\* Lexer.advance: the cursor st = [pos, line, col] after one character
Advance(src, st) ==
    IF src[st.pos + 1] = "\n"
      THEN [pos |-> st.pos + 1, line |-> st.line + 1, col |-> 1]
      ELSE [pos |-> st.pos + 1, line |-> st.line, col |-> st.col + 1]

\* Lexer.make_token
MakeToken(type, value, st) ==
    [type |-> type, value |-> value, line |-> st.line, col |-> st.col,
     pos |-> st.pos]

RECURSIVE SkipWhitespace(_, _)
SkipWhitespace(src, st) ==
    IF st.pos < Len(src) /\ IsSpace(src[st.pos + 1])
      THEN SkipWhitespace(src, Advance(src, st))
      ELSE st

RECURSIVE SkipToLineEnd(_, _)
SkipToLineEnd(src, st) ==
    IF st.pos < Len(src) /\ src[st.pos + 1] # "\n"
      THEN SkipToLineEnd(src, Advance(src, st))
      ELSE st

\* skip_comment consuming the newline that ends the comment as well
SkipComment_EatsNewline(src, st) ==
    LET e == SkipToLineEnd(src, st)
    IN  IF e.pos < Len(src) THEN Advance(src, e) ELSE e

\* Lexer.skip_comment
SkipComment(src, st) == SkipToLineEnd(src, st)

\* What one scan yields: a token, nothing (a comment), or an exception.
Emit(tok, st) == [kind |-> "token", tok |-> tok, st |-> st]

Raise(exc, st) ==
    [kind |-> exc, tok |-> MakeToken("NONE", <<>>, st), st |-> st]

\* read_string: the escape table
Escape(esc) ==
    CASE esc = "n" -> <<"\n">>
      [] esc = "t" -> <<"\t">>
      [] esc = "r" -> <<"\r">>
      [] esc = "\\" -> <<"\\">>
      [] esc = "\"" -> <<"\"">>
      [] esc = "0" -> <<"NUL">>
      [] OTHER -> <<"\\", esc>>

\* read_string: the loop, from cursor st with the characters read so far
RECURSIVE ReadStringLoop(_, _, _, _)
ReadStringLoop(src, start, st, result) ==
    IF st.pos >= Len(src)
      THEN Raise("LexerError", st)
      ELSE LET ch == src[st.pos + 1]
           IN  CASE ch = "\"" ->
                      Emit(MakeToken("STRING", result, start),
                           Advance(src, st))
                 [] ch = "\\" ->
                      LET st1 == Advance(src, st)
                      IN  IF st1.pos >= Len(src)
                            THEN Raise("LexerError", st1)
                            ELSE ReadStringLoop(src, start,
                                     Advance(src, st1),
                                     result \o Escape(src[st1.pos + 1]))
                 [] ch = "\n" -> Raise("LexerError", st)
                 [] OTHER ->
                      ReadStringLoop(src, start, Advance(src, st),
                                     Append(result, ch))

ReadString(src, st) == ReadStringLoop(src, st, Advance(src, st), <<>>)

RECURSIVE SkipDigits(_, _)
SkipDigits(src, st) ==
    IF st.pos < Len(src) /\ IsDigit(src[st.pos + 1])
      THEN SkipDigits(src, Advance(src, st))
      ELSE st

DigitValue(ch) == CHOOSE v \in 0..9 : DecimalDigits[v + 1] = ch

\* int(text) of a run of decimal digits
RECURSIVE IntOf(_)
IntOf(text) ==
    IF text = <<>> THEN 0
    ELSE 10 * IntOf(Front(text)) + DigitValue(Last(text))

RECURSIVE StripZeros(_)
StripZeros(text) ==
    IF text # <<>> /\ Last(text) = "0" THEN StripZeros(Front(text)) ELSE text

\* float(text) of digits '.' digits: the whole part and the fraction's
\* digits without trailing zeros
FloatOf(whole, frac) == [whole |-> IntOf(whole), frac |-> StripZeros(frac)]

\* int() and float() raise ValueError on a digit that is not decimal
Converts(text) == \A k \in 1..Len(text) : text[k] \in Range(DecimalDigits)

\* read_number taking every '.' after the digits for a decimal point
ReadNumber_GreedyDot(src, st) ==
    LET st1 == SkipDigits(src, st)
        is_float == st1.pos < Len(src) /\ src[st1.pos + 1] = "."
        st2 == IF is_float THEN SkipDigits(src, Advance(src, st1)) ELSE st1
        whole == SubSeq(src, st.pos + 1, st1.pos)
        frac == SubSeq(src, st1.pos + 2, st2.pos)
    IN  IF is_float
          THEN Emit(MakeToken("FLOAT", FloatOf(whole, frac), st), st2)
          ELSE Emit(MakeToken("INT", IntOf(whole), st), st2)

\* Lexer.read_number
ReadNumber(src, st) ==
    LET st1 == SkipDigits(src, st)
        is_float == /\ st1.pos < Len(src)
                    /\ src[st1.pos + 1] = "."
                    /\ IsDigit(Peek(src, st1.pos, 1))
        st2 == IF is_float THEN SkipDigits(src, Advance(src, st1)) ELSE st1
        whole == SubSeq(src, st.pos + 1, st1.pos)
        frac == SubSeq(src, st1.pos + 2, st2.pos)
    IN  IF ~Converts(whole) \/ (is_float /\ ~Converts(frac))
          THEN Raise("ValueError", st2)
          ELSE IF is_float
                 THEN Emit(MakeToken("FLOAT", FloatOf(whole, frac), st), st2)
                 ELSE Emit(MakeToken("INT", IntOf(whole), st), st2)

RECURSIVE SkipIdent(_, _)
SkipIdent(src, st) ==
    IF st.pos < Len(src) /\ (IsAlnum(src[st.pos + 1]) \/ src[st.pos + 1] = "_")
      THEN SkipIdent(src, Advance(src, st))
      ELSE st

ReadIdentifier(src, st) ==
    LET st1 == SkipIdent(src, st)
        text == SubSeq(src, st.pos + 1, st1.pos)
    IN  Emit(MakeToken(KeywordType(text), text, st), st1)

\* Lexer.match(expected) at cursor st
Matches(src, st, expected) ==
    st.pos < Len(src) /\ src[st.pos + 1] = expected

\* an operator of one character, or of two when the next is second
OneOrTwo(src, st, one, second, two) ==
    LET st1 == Advance(src, st)
        ch == src[st.pos + 1]
    IN  IF second # "" /\ Matches(src, st1, second)
          THEN Emit(MakeToken(two, <<ch, second>>, st), Advance(src, st1))
          ELSE Emit(MakeToken(one, <<ch>>, st), st1)

\* a single '&' or '|' taken as the operator of two
Doubled_Lone(src, st, two) ==
    LET st1 == Advance(src, st)
        ch == src[st.pos + 1]
    IN  Emit(MakeToken(two, <<ch>>, st), st1)

\* '&&' and '||': the single character is an error, raised after it
Doubled(src, st, two) ==
    LET st1 == Advance(src, st)
        ch == src[st.pos + 1]
    IN  IF Matches(src, st1, ch)
          THEN Emit(MakeToken(two, <<ch, ch>>, st), Advance(src, st1))
          ELSE Raise("LexerError", st1)

\* tokenize: the operators and delimiters, at the character ch of cursor st
ScanOperator(src, st) ==
    LET ch == src[st.pos + 1]
        st1 == Advance(src, st)
    IN  CASE ch = "+" -> OneOrTwo(src, st, "PLUS", "=", "PLUS_ASSIGN")
          [] ch = "-" -> OneOrTwo(src, st, "MINUS", "=", "MINUS_ASSIGN")
          [] ch = "*" -> OneOrTwo(src, st, "STAR", "=", "STAR_ASSIGN")
          [] ch = "/" -> OneOrTwo(src, st, "SLASH", "=", "SLASH_ASSIGN")
          [] ch = "%" -> OneOrTwo(src, st, "PERCENT", "", "PERCENT")
          [] ch = "=" ->
               IF Matches(src, st1, "=")
                 THEN Emit(MakeToken("EQ", <<"=", "=">>, st),
                           Advance(src, st1))
                 ELSE OneOrTwo(src, st, "ASSIGN", ">", "ARROW")
          [] ch = "!" -> OneOrTwo(src, st, "BANG", "=", "NEQ")
          [] ch = "<" -> OneOrTwo(src, st, "LT", "=", "LTE")
          [] ch = ">" -> OneOrTwo(src, st, "GT", "=", "GTE")
          [] ch = "&" -> Doubled(src, st, "AND")
          [] ch = "|" -> Doubled(src, st, "OR")
          [] ch = ":" -> OneOrTwo(src, st, "COLON", ":", "COLONCOLON")
          [] ch = "." ->
               IF Peek(src, st1.pos, 0) = "." /\ Peek(src, st1.pos, 1) = "."
                 THEN Emit(MakeToken("DOTDOTDOT", <<".", ".", ".">>, st),
                           Advance(src, Advance(src, st1)))
                 ELSE Emit(MakeToken("DOT", <<".">>, st), st1)
          [] ch = "(" -> OneOrTwo(src, st, "LPAREN", "", "LPAREN")
          [] ch = ")" -> OneOrTwo(src, st, "RPAREN", "", "RPAREN")
          [] ch = "{" -> OneOrTwo(src, st, "LBRACE", "", "LBRACE")
          [] ch = "}" -> OneOrTwo(src, st, "RBRACE", "", "RBRACE")
          [] ch = "[" -> OneOrTwo(src, st, "LBRACKET", "", "LBRACKET")
          [] ch = "]" -> OneOrTwo(src, st, "RBRACKET", "", "RBRACKET")
          [] ch = "," -> OneOrTwo(src, st, "COMMA", "", "COMMA")
          [] OTHER -> Raise("LexerError", st)

\* tokenize: the body of the loop after skip_whitespace, at a cursor st
\* before the end of the source
ScanToken(src, st) ==
    LET ch == src[st.pos + 1]
    IN  CASE ch = "\n" ->
               Emit(MakeToken("NEWLINE", <<"\\", "n">>, st), Advance(src, st))
          [] ch = "#" ->
               [kind |-> "comment", tok |-> MakeToken("NONE", <<>>, st),
                st |-> SkipComment(src, st)]
          [] ch = "\"" -> ReadString(src, st)
          [] IsDigit(ch) -> ReadNumber(src, st)
          [] IsAlpha(ch) \/ ch = "_" -> ReadIdentifier(src, st)
          [] OTHER -> ScanOperator(src, st)

Cursor == [pos |-> pos, line |-> line, col |-> col]

EofToken(st) == MakeToken("EOF", <<>>, st)

\* tokenize returning the tokens without the EOF token
Finish_NoEof(toks, st) == toks

\* tokenize: tokens.append(EOF at the cursor), after the loop
Finish(toks, st) == Append(toks, EofToken(st))

LexerInit ==
    /\ source \in SeqsUpTo(Alphabet, MaxSrcLen)
    /\ pos = 0
    /\ line = 1
    /\ col = 1
    /\ tokens = <<>>
    /\ lexState = "scanning"
    /\ errLine = 0
    /\ errCol = 0

\* tokenize: one iteration of the loop.  When skip_whitespace reaches the
\* end of the source the loop is left, and EOF is appended at once.
LexStep ==
    /\ lexState = "scanning"
    /\ pos < Len(source)
    /\ LET st == SkipWhitespace(source, Cursor)
       IN  IF st.pos >= Len(source)
             THEN /\ pos' = st.pos /\ line' = st.line /\ col' = st.col
                  /\ tokens' = Finish(tokens, st)
                  /\ lexState' = "returned"
                  /\ UNCHANGED <<errLine, errCol>>
             ELSE LET r == ScanToken(source, st)
                  IN  /\ pos' = r.st.pos
                      /\ line' = r.st.line
                      /\ col' = r.st.col
                      /\ IF r.kind \in {"token", "comment"}
                           THEN /\ tokens' = IF r.kind = "token"
                                               THEN Append(tokens, r.tok)
                                               ELSE tokens
                                /\ UNCHANGED <<lexState, errLine, errCol>>
                           ELSE /\ lexState' = r.kind
                                /\ errLine' = IF r.kind = "LexerError"
                                                THEN r.st.line ELSE errLine
                                /\ errCol' = IF r.kind = "LexerError"
                                               THEN r.st.col ELSE errCol
                                /\ UNCHANGED tokens
    /\ UNCHANGED source
    /\ UNCHANGED <<resolverVars, parserVars>>

\* tokenize: the loop has ended; EOF is appended and the tokens returned
LexFinish ==
    /\ lexState = "scanning"
    /\ pos >= Len(source)
    /\ tokens' = Finish(tokens, Cursor)
    /\ lexState' = "returned"
    /\ UNCHANGED <<source, pos, line, col, errLine, errCol>>
    /\ UNCHANGED <<resolverVars, parserVars>>

LexerNext == LexStep \/ LexFinish

\* no Lexer at work
LexerIdle ==
    /\ source = <<>>
    /\ pos = 0
    /\ line = 1
    /\ col = 1
    /\ tokens = <<>>
    /\ lexState = "idle"
    /\ errLine = 0
    /\ errCol = 0

----------------------------------------------------------------------------
(* flc.py: discover_modules *)

NoCall == [dotted |-> <<>>, file |-> <<>>]

\* os.path.dirname(os.path.abspath(file_path)), relative to entry_dir
DirName(file) == Front(file)

\* os.path.exists(f) may answer e: a file outside the universe does not
\* exist, and a file asked about before answers as it did.
CanAnswer(fs, f, e) ==
    IF f \in FileUniverse
      THEN fs[f] \in {"unknown", IF e THEN "yes" ELSE "no"}
      ELSE e = FALSE

Learn(fs, f, e) ==
    IF f \in FileUniverse
      THEN [fs EXCEPT ![f] = IF e THEN "yes" ELSE "no"]
      ELSE fs

\* Resolve without the second os.path.exists test and its sys.exit(1)
Resolve_NoExit(imp_path, mod_dir, e1, e2) ==
    LET first == imp_path
        second == mod_dir \o imp_path
    IN  IF e1
          THEN [found |-> TRUE, path |-> first, tried |-> <<first>>]
          ELSE [found |-> TRUE, path |-> second, tried |-> <<first, second>>]

\* os.path.join(entry_dir, *imp_path) + '.fl', then the same under mod_dir
\* when the first does not exist.  e1, e2: what os.path.exists answers for
\* the two paths; tried: the os.path.exists calls made.
Resolve(imp_path, mod_dir, e1, e2) ==
    LET first == imp_path
        second == mod_dir \o imp_path
    IN  IF e1
          THEN [found |-> TRUE, path |-> first, tried |-> <<first>>]
          ELSE [found |-> e2, path |-> second, tried |-> <<first, second>>]

\* parse() with its exception swallowed by the caller
ParseFails_Swallowed(c) == FALSE

\* parse(source, file_path) raises LexerError or ParseError
ParseFails(c) == c.err # "none"

\* the module put at the head of the list when it is entered (pre-order)
AppendOrdered_Front(list, entry) == <<entry>> \o list

\* ordered.append((dotted_path, file_path, source))
AppendOrdered(list, entry) == Append(list, entry)

\* visit() without its test of visited
AlreadyVisited_Never(seen, dotted_path) == FALSE

\* if dotted_path in visited: return
AlreadyVisited(seen, dotted_path) == dotted_path \in seen

\* visit() without visited.add(dotted_path)
MarkVisited_Skip(seen, dotted_path) == seen

\* visited.add(dotted_path)
MarkVisited(seen, dotted_path) == seen \cup {dotted_path}

ResolverInit ==
    /\ \E s \in {"yes", "no"} :
          fsExists = [f \in FileUniverse |->
                         IF f[1] \in STDLIB_MODULES THEN s ELSE "unknown"]
    /\ fsContent = [f \in FileUniverse |-> Unread]
    /\ nAdopts = 0
    /\ pc = "start"
    /\ call = NoCall
    /\ stack = <<>>
    /\ visited = {}
    /\ ordered = <<>>
    /\ modules = <<>>
    /\ exitCause = "none"
    /\ lookups = <<>>
    /\ reads = <<>>
    /\ parses = <<>>
    /\ codegenInvoked = FALSE
    /\ outputWritten = FALSE

\* compile_file: the entry file must exist; then discover_modules calls
\* visit('__main__', entry_path).
CompileStart ==
    /\ pc = "start"
    /\ \E e \in BOOLEAN :
          /\ CanAnswer(fsExists, EntryFile, e)
          /\ fsExists' = Learn(fsExists, EntryFile, e)
          /\ IF e
               THEN /\ pc' = "discover"
                    /\ call' = [dotted |-> MainDotted, file |-> EntryFile]
                    /\ UNCHANGED exitCause
               ELSE /\ pc' = "exit"
                    /\ exitCause' = "notfound"
                    /\ UNCHANGED call
    /\ UNCHANGED <<fsContent, nAdopts, stack, visited, ordered, modules,
                   lookups, reads, parses, codegenInvoked, outputWritten>>
    /\ UNCHANGED <<lexerVars, parserVars>>

\* visit(): the visited test, the read of the file and its parse.  The
\* text of a file is an input, drawn when the file is first read; a file
\* read a second time reads the same.
VisitEnter ==
    /\ pc = "discover"
    /\ call # NoCall
    /\ IF AlreadyVisited(visited, call.dotted)
         THEN /\ call' = NoCall
              /\ UNCHANGED <<fsContent, nAdopts, pc, stack, visited,
                             exitCause, reads, parses>>
         ELSE \E c \in IF fsContent[call.file] = Unread
                         THEN Contents(MaxAdopts - nAdopts)
                         ELSE {fsContent[call.file]} :
              /\ fsContent' = [fsContent EXCEPT ![call.file] = c]
              /\ nAdopts' = IF fsContent[call.file] = Unread
                              THEN nAdopts + Len(c.imports)
                              ELSE nAdopts
              /\ visited' = MarkVisited(visited, call.dotted)
              /\ reads' = Append(reads, call.file)
              /\ parses' = Append(parses, call.file)
              /\ call' = NoCall
              /\ IF ParseFails(c)
                   THEN /\ pc' = "exit"
                        /\ exitCause' = c.err
                        /\ stack' = <<>>
                   ELSE /\ stack' = Append(stack, [dotted |-> call.dotted,
                                                   file |-> call.file,
                                                   i |-> 1])
                        /\ UNCHANGED <<pc, exitCause>>
    /\ UNCHANGED <<fsExists, ordered, modules, lookups, codegenInvoked,
                   outputWritten>>
    /\ UNCHANGED <<lexerVars, parserVars>>

\* visit(): one iteration of the loop over the module's adopt statements.
ImportStep ==
    /\ pc = "discover"
    /\ call = NoCall
    /\ stack # <<>>
    /\ LET fr == Last(stack)
           imps == fsContent[fr.file].imports
       IN  /\ fr.i <= Len(imps)
           /\ LET imp_path == imps[fr.i]
                  mod_dir == DirName(fr.file)
                  next == [stack EXCEPT ![Len(stack)].i = fr.i + 1]
              IN  IF is_stdlib(imp_path[1])
                    THEN /\ stack' = next
                         /\ UNCHANGED <<fsExists, pc, call, exitCause,
                                        lookups>>
                    ELSE \E e1, e2 \in BOOLEAN :
                         LET r == Resolve(imp_path, mod_dir, e1, e2)
                             fs1 == Learn(fsExists, r.tried[1], e1)
                         IN  /\ CanAnswer(fsExists, r.tried[1], e1)
                             /\ IF e1
                                  THEN e2 = FALSE /\ fsExists' = fs1
                                  ELSE /\ CanAnswer(fs1, r.tried[2], e2)
                                       /\ fsExists' = Learn(fs1, r.tried[2], e2)
                             /\ lookups' = Append(lookups,
                                              [imp |-> imp_path,
                                               from |-> fr.file,
                                               tried |-> r.tried])
                             /\ IF r.found
                                  THEN /\ call' = [dotted |-> imp_path,
                                                   file |-> r.path]
                                       /\ stack' = next
                                       /\ UNCHANGED <<pc, exitCause>>
                                  ELSE /\ pc' = "exit"
                                       /\ exitCause' = "resolve"
                                       /\ stack' = <<>>
                                       /\ UNCHANGED call
    /\ UNCHANGED <<fsContent, nAdopts, visited, ordered, modules, reads,
                   parses, codegenInvoked, outputWritten>>
    /\ UNCHANGED <<lexerVars, parserVars>>

\* visit(): after the loop, the module is appended; the outermost return
\* is the return of discover_modules.
VisitReturn ==
    /\ pc = "discover"
    /\ call = NoCall
    /\ stack # <<>>
    /\ LET fr == Last(stack)
       IN  /\ fr.i > Len(fsContent[fr.file].imports)
           /\ ordered' = AppendOrdered(ordered,
                             [dotted |-> fr.dotted, file |-> fr.file,
                              source |-> fsContent[fr.file]])
    /\ stack' = Front(stack)
    /\ pc' = IF Len(stack) = 1 THEN "parse" ELSE pc
    /\ UNCHANGED <<fsExists, fsContent, nAdopts, call, visited, modules,
                   exitCause, lookups, reads, parses, codegenInvoked,
                   outputWritten>>
    /\ UNCHANGED <<lexerVars, parserVars>>

\* compile_file: one iteration of "for dotted_path, file_path, source in
\* modules_info": the source kept in the list is parsed again.
ParseModule ==
    /\ pc = "parse"
    /\ Len(modules) < Len(ordered)
    /\ LET m == ordered[Len(modules) + 1]
       IN  /\ parses' = Append(parses, m.file)
           /\ IF ParseFails(m.source)
                THEN /\ pc' = "exit"
                     /\ exitCause' = m.source.err
                     /\ UNCHANGED modules
                ELSE /\ modules' = Append(modules,
                                     [path |-> m.dotted,
                                      source_dir |-> DirName(m.file)])
                     /\ UNCHANGED <<pc, exitCause>>
    /\ UNCHANGED <<fsExists, fsContent, nAdopts, call, stack, visited,
                   ordered, lookups, reads, codegenInvoked, outputWritten>>
    /\ UNCHANGED <<lexerVars, parserVars>>

\* compile_file: CodeGen().generate_program(program), which returns the
\* output text or raises CodeGenError.
Generate ==
    /\ pc = "parse"
    /\ Len(modules) = Len(ordered)
    /\ codegenInvoked' = TRUE
    /\ \E ok \in BOOLEAN :
          IF ok
            THEN pc' = "write" /\ UNCHANGED exitCause
            ELSE pc' = "exit" /\ exitCause' = "codegen"
    /\ UNCHANGED <<fsExists, fsContent, nAdopts, call, stack, visited,
                   ordered, modules, lookups, reads, parses, outputWritten>>
    /\ UNCHANGED <<lexerVars, parserVars>>

\* compile_file: the output file is written.
WriteOutput ==
    /\ pc = "write"
    /\ outputWritten' = TRUE
    /\ pc' = "done"
    /\ UNCHANGED <<fsExists, fsContent, nAdopts, call, stack, visited,
                   ordered, modules, exitCause, lookups, reads, parses,
                   codegenInvoked>>
    /\ UNCHANGED <<lexerVars, parserVars>>

\* no compilation at work
ResolverIdle ==
    /\ fsExists = [f \in FileUniverse |-> "unknown"]
    /\ fsContent = [f \in FileUniverse |-> Unread]
    /\ nAdopts = 0
    /\ pc = "idle"
    /\ call = NoCall
    /\ stack = <<>>
    /\ visited = {}
    /\ ordered = <<>>
    /\ modules = <<>>
    /\ exitCause = "none"
    /\ lookups = <<>>
    /\ reads = <<>>
    /\ parses = <<>>
    /\ codegenInvoked = FALSE
    /\ outputWritten = FALSE

ResolverNext ==
    \/ CompileStart
    \/ VisitEnter
    \/ ImportStep
    \/ VisitReturn
    \/ ParseModule
    \/ Generate
    \/ WriteOutput

----------------------------------------------------------------------------
(* fl/ast_nodes.py.  A node is a record with its class name in kind; a    *)
(* str is a sequence of characters, a list a sequence, None is NoneValue. *)

NoneValue == [kind |-> "None"]

AdoptStatement(module_path) ==
    [kind |-> "AdoptStatement", module_path |-> module_path]

VariableDecl(name, value, is_shared, type_ann) ==
    [kind |-> "VariableDecl", name |-> name, value |-> value,
     is_shared |-> is_shared, type_ann |-> type_ann]

Assignment(target, op, value) ==
    [kind |-> "Assignment", target |-> target, op |-> op, value |-> value]

IfStatement(condition, body, elif_clauses, else_body) ==
    [kind |-> "IfStatement", condition |-> condition, body |-> body,
     elif_clauses |-> elif_clauses, else_body |-> else_body]

WhileStatement(condition, body) ==
    [kind |-> "WhileStatement", condition |-> condition, body |-> body]

ForEachStatement(iterable, var_name, body) ==
    [kind |-> "ForEachStatement", iterable |-> iterable,
     var_name |-> var_name, body |-> body]

ReturnStatement(value) == [kind |-> "ReturnStatement", value |-> value]

ExpressionStatement(expr) == [kind |-> "ExpressionStatement", expr |-> expr]

Block(statements) == [kind |-> "Block", statements |-> statements]

NumberLiteral(value) == [kind |-> "NumberLiteral", value |-> value]

StringLiteral(value) == [kind |-> "StringLiteral", value |-> value]

BoolLiteral(value) == [kind |-> "BoolLiteral", value |-> value]

ArrayLiteral(elements) == [kind |-> "ArrayLiteral", elements |-> elements]

Identifier(name) == [kind |-> "Identifier", name |-> name]

BinaryOp(left, op, right) ==
    [kind |-> "BinaryOp", left |-> left, op |-> op, right |-> right]

UnaryOp(op, operand) == [kind |-> "UnaryOp", op |-> op, operand |-> operand]

MemberAccess(object, member) ==
    [kind |-> "MemberAccess", object |-> object, member |-> member]

ModuleAccess(object, member) ==
    [kind |-> "ModuleAccess", object |-> object, member |-> member]

IndexAccess(object, index) ==
    [kind |-> "IndexAccess", object |-> object, index |-> index]

FunctionCall(callee, args) ==
    [kind |-> "FunctionCall", callee |-> callee, args |-> args]

Param(name, type_ann, is_vararg) ==
    [kind |-> "Param", name |-> name, type_ann |-> type_ann,
     is_vararg |-> is_vararg]

Closure(params, body) == [kind |-> "Closure", params |-> params, body |-> body]

RangeExpr(start, end) == [kind |-> "RangeExpr", start |-> start, end |-> end]

MakeoutExpr(callee, args) ==
    [kind |-> "MakeoutExpr", callee |-> callee, args |-> args]

NativeBlock(code) == [kind |-> "NativeBlock", code |-> code]

ClassDef(name, parent, members) ==
    [kind |-> "ClassDef", name |-> name, parent |-> parent,
     members |-> members]

Module(path, statements) ==
    [kind |-> "Module", path |-> path, statements |-> statements]

----------------------------------------------------------------------------
(* fl/parser.py.  self is the Parser object, [tokens, source]; its cursor *)
(* self.pos is passed as p and handed back in the result of each method:  *)
(* [ok |-> TRUE, node, pos] on return, [ok |-> FALSE, node, pos] when     *)
(* ParseError is raised, node then being the exception with its token.    *)

ParserOf(toks, src) == [tokens |-> toks, source |-> src]

\* Parser.current
Current(self, p) ==
    IF p < Len(self.tokens) THEN self.tokens[p + 1]
    ELSE self.tokens[Len(self.tokens)]

\* Parser.peek(offset)
PeekToken(self, p, offset) == Current(self, p + offset)

Return(node, p) == [ok |-> TRUE, node |-> node, pos |-> p]

\* ParseError(msg, self.current()), raised
ParseError(self, p) ==
    [ok |-> FALSE,
     node |-> [kind |-> "ParseError", token |-> Current(self, p)],
     pos |-> p]

\* Parser.expect: the token, and the cursor after it
Expect(self, p, type) ==
    IF Current(self, p).type # type THEN ParseError(self, p)
    ELSE Return(Current(self, p), p + 1)

\* Parser.skip_newlines: the cursor after the NEWLINE tokens
RECURSIVE SkipNewlines(_, _)
SkipNewlines(self, p) ==
    IF Current(self, p).type = "NEWLINE"
      THEN SkipNewlines(self, p + 1) ELSE p

\* Parser.at_statement_end
AtStatementEnd(self, p) ==
    Current(self, p).type \in {"NEWLINE", "EOF", "RBRACE"}

\* Parser.expect_statement_end
ExpectStatementEnd(self, p) ==
    IF Current(self, p).type \in {"RBRACE", "EOF"} THEN Return(NoneValue, p)
    ELSE IF Current(self, p).type = "NEWLINE"
           THEN Return(NoneValue, SkipNewlines(self, p))
           ELSE ParseError(self, p)

RECURSIVE Call(_, _, _),
          ParseStatement(_, _), ParseKeep(_, _, _), BlockLoop(_, _, _),
          ParseBlock(_, _), ElseLoop(_, _, _, _, _), ParseIf(_, _),
          ParseExpression(_, _), ParseOr(_, _), OrLoop(_, _, _),
          ParseAnd(_, _), AndLoop(_, _, _),
          ParseEquality(_, _), EqualityLoop(_, _, _),
          ParseComparison(_, _), ComparisonLoop(_, _, _),
          ParseRange(_, _),
          ParseAddition(_, _), AdditionLoop(_, _, _),
          ParseMultiplication(_, _), MultiplicationLoop(_, _, _),
          ParseUnary(_, _), ParsePostfix(_, _), PostfixLoop(_, _, _),
          ArgsLoop(_, _, _), ParseArgsList(_, _), ParsePrimary(_, _),
          ArrayLoop(_, _, _), ParseArrayLiteral(_, _), ParseMakeout(_, _),
          ClassLoop(_, _, _), ParseClassDef(_, _),
          ParseParenOrClosure(_, _), ParseClosure(_, _)

\* parse_adopt: while self.match(DOT): parts.append(expect(IDENT).value)
RECURSIVE AdoptLoop(_, _, _)
AdoptLoop(self, parts, p) ==
    IF Current(self, p).type = "DOT"
      THEN LET id == Expect(self, p + 1, "IDENT")
           IN  IF ~id.ok THEN id
               ELSE AdoptLoop(self, Append(parts, id.node.value), id.pos)
      ELSE Return(parts, p)

\* Parser.parse_adopt
ParseAdopt(self, p) ==
    LET kw == Expect(self, p, "ADOPT")
        id == Expect(self, kw.pos, "IDENT")
        parts == AdoptLoop(self, <<id.node.value>>, id.pos)
        end == ExpectStatementEnd(self, parts.pos)
    IN  IF ~kw.ok THEN kw
        ELSE IF ~id.ok THEN id
        ELSE IF ~parts.ok THEN parts
        ELSE IF ~end.ok THEN end
        ELSE Return(AdoptStatement(parts.node), end.pos)

\* Parser.parse_share
ParseShare(self, p) ==
    LET kw == Expect(self, p, "SHARE")
    IN  IF ~kw.ok THEN kw
        ELSE IF Current(self, kw.pos).type = "KEEP"
               THEN Call("parse_keep(is_shared=True)", self, kw.pos)
               ELSE ParseError(self, kw.pos)

\* parse_keep: the annotation after ':' (native or an identifier)
TypeAnnotation(self, p) ==
    IF Current(self, p).type = "NATIVE"
      THEN Return(Current(self, p).value, p + 1)
      ELSE LET id == Expect(self, p, "IDENT")
           IN  IF ~id.ok THEN id ELSE Return(id.node.value, id.pos)

\* parse_keep leaving the name of a ClassDef empty
NameClass_Skip(value, name) == value

\* parse_keep: if isinstance(value, ClassDef): value.name = name
NameClass(value, name) ==
    IF value.kind = "ClassDef" THEN [value EXCEPT !.name = name] ELSE value

\* parse_keep: [= value], the end of the statement, the VariableDecl
KeepValue(self, p, name, is_shared, type_ann) ==
    IF Current(self, p).type = "ASSIGN"
      THEN LET v == Call("parse_expression", self, p + 1)
               end == ExpectStatementEnd(self, v.pos)
           IN  IF ~v.ok THEN v
               ELSE IF ~end.ok THEN end
               ELSE Return(VariableDecl(name, NameClass(v.node, name),
                                        is_shared, type_ann), end.pos)
      ELSE LET end == ExpectStatementEnd(self, p)
           IN  IF ~end.ok THEN end
               ELSE Return(VariableDecl(name, NoneValue, is_shared, type_ann),
                           end.pos)

\* Parser.parse_keep
ParseKeep(self, p, is_shared) ==
    LET kw == Expect(self, p, "KEEP")
        id == Expect(self, kw.pos, "IDENT")
        name == id.node.value
    IN  IF ~kw.ok THEN kw
        ELSE IF ~id.ok THEN id
        ELSE IF Current(self, id.pos).type = "COLON"
               THEN LET ann == TypeAnnotation(self, id.pos + 1)
                    IN  IF ~ann.ok THEN ann
                        ELSE KeepValue(self, ann.pos, name, is_shared,
                                       ann.node)
               ELSE KeepValue(self, id.pos, name, is_shared, NoneValue)

\* parse_if: the else / else if clauses, then skip_newlines
ElseLoop(self, condition, body, elifs, p) ==
    IF Current(self, p).type = "ELSE"
      THEN IF Current(self, p + 1).type = "IF"
             THEN LET c == Call("parse_expression", self, p + 2)
                      b == Call("parse_block", self, c.pos)
                  IN  IF ~c.ok THEN c
                      ELSE IF ~b.ok THEN b
                      ELSE ElseLoop(self, condition, body,
                                    Append(elifs, <<c.node, b.node>>), b.pos)
             ELSE LET b == Call("parse_block", self, p + 1)
                  IN  IF ~b.ok THEN b
                      ELSE Return(IfStatement(condition, body, elifs, b.node),
                                  SkipNewlines(self, b.pos))
      ELSE Return(IfStatement(condition, body, elifs, NoneValue),
                  SkipNewlines(self, p))

\* Parser.parse_if
ParseIf(self, p) ==
    LET kw == Expect(self, p, "IF")
        c == Call("parse_expression", self, kw.pos)
        b == Call("parse_block", self, c.pos)
    IN  IF ~kw.ok THEN kw
        ELSE IF ~c.ok THEN c
        ELSE IF ~b.ok THEN b
        ELSE ElseLoop(self, c.node, b.node, <<>>, b.pos)

\* Parser.parse_while
ParseWhile(self, p) ==
    LET kw == Expect(self, p, "STAY")
        c == Call("parse_expression", self, kw.pos)
        b == Call("parse_block", self, c.pos)
    IN  IF ~kw.ok THEN kw
        ELSE IF ~c.ok THEN c
        ELSE IF ~b.ok THEN b
        ELSE Return(WhileStatement(c.node, b.node), b.pos)

\* Parser.parse_foreach
ParseForeach(self, p) ==
    LET kw == Expect(self, p, "GO")
        it == Call("parse_expression", self, kw.pos)
        by == Expect(self, it.pos, "BY")
        id == Expect(self, by.pos, "IDENT")
        b == Call("parse_block", self, id.pos)
    IN  IF ~kw.ok THEN kw
        ELSE IF ~it.ok THEN it
        ELSE IF ~by.ok THEN by
        ELSE IF ~id.ok THEN id
        ELSE IF ~b.ok THEN b
        ELSE Return(ForEachStatement(it.node, id.node.value, b.node), b.pos)

\* Parser.parse_return
ParseReturn(self, p) ==
    LET kw == Expect(self, p, "RETURN")
    IN  IF ~kw.ok THEN kw
        ELSE IF AtStatementEnd(self, kw.pos)
               THEN LET end == ExpectStatementEnd(self, kw.pos)
                    IN  IF ~end.ok THEN end
                        ELSE Return(ReturnStatement(NoneValue), end.pos)
               ELSE LET v == Call("parse_expression", self, kw.pos)
                        end == ExpectStatementEnd(self, v.pos)
                    IN  IF ~v.ok THEN v
                        ELSE IF ~end.ok THEN end
                        ELSE Return(ReturnStatement(v.node), end.pos)

\* parse_block: the statements up to the closing brace
BlockLoop(self, stmts, p) ==
    IF Current(self, p).type = "RBRACE" THEN Return(Block(stmts), p + 1)
    ELSE IF Current(self, p).type = "EOF" THEN ParseError(self, p)
    ELSE LET s == Call("parse_statement", self, p)
         IN  IF ~s.ok THEN s
             ELSE BlockLoop(self, Append(stmts, s.node),
                            SkipNewlines(self, s.pos))

\* Parser.parse_block
ParseBlock(self, p) ==
    LET lb == Expect(self, SkipNewlines(self, p), "LBRACE")
    IN  IF ~lb.ok THEN lb
        ELSE BlockLoop(self, <<>>, SkipNewlines(self, lb.pos))

AssignOperators ==
    {"ASSIGN", "PLUS_ASSIGN", "MINUS_ASSIGN", "STAR_ASSIGN", "SLASH_ASSIGN"}

\* parse_statement taking only a name as the target of an assignment
ParseExpressionOrAssignment_NameTarget(self, p) ==
    LET e == Call("parse_expression", self, p)
    IN  IF ~e.ok THEN e
        ELSE IF Current(self, e.pos).type \in AssignOperators
               THEN LET op_tok == Current(self, e.pos)
                        v == Call("parse_expression", self, e.pos + 1)
                        end == ExpectStatementEnd(self, v.pos)
                    IN  IF e.node.kind # "Identifier"
                          THEN ParseError(self, e.pos)
                        ELSE IF ~v.ok THEN v
                        ELSE IF ~end.ok THEN end
                        ELSE Return(Assignment(e.node, op_tok.value, v.node),
                                    end.pos)
               ELSE LET end == ExpectStatementEnd(self, e.pos)
                    IN  IF ~end.ok THEN end
                        ELSE Return(ExpressionStatement(e.node), end.pos)

\* parse_statement: the statement that begins with no statement keyword
ParseExpressionOrAssignment(self, p) ==
    LET e == Call("parse_expression", self, p)
    IN  IF ~e.ok THEN e
        ELSE IF Current(self, e.pos).type \in AssignOperators
               THEN LET op_tok == Current(self, e.pos)
                        v == Call("parse_expression", self, e.pos + 1)
                        end == ExpectStatementEnd(self, v.pos)
                    IN  IF ~v.ok THEN v
                        ELSE IF ~end.ok THEN end
                        ELSE Return(Assignment(e.node, op_tok.value, v.node),
                                    end.pos)
               ELSE LET end == ExpectStatementEnd(self, e.pos)
                    IN  IF ~end.ok THEN end
                        ELSE Return(ExpressionStatement(e.node), end.pos)

\* Parser.parse_statement
ParseStatement(self, p) ==
    LET type == Current(self, p).type
    IN  CASE type = "ADOPT" -> Call("parse_adopt", self, p)
          [] type = "SHARE" -> Call("parse_share", self, p)
          [] type = "KEEP" -> Call("parse_keep", self, p)
          [] type = "IF" -> Call("parse_if", self, p)
          [] type = "STAY" -> Call("parse_while", self, p)
          [] type = "GO" -> Call("parse_foreach", self, p)
          [] type = "RETURN" -> Call("parse_return", self, p)
          [] OTHER -> ParseExpressionOrAssignment(self, p)

\* Parser.parse_expression
ParseExpression(self, p) == ParseOr(self, p)

\* parse_or: the while loop
OrLoop(self, left, p) ==
    IF Current(self, p).type = "OR"
      THEN LET right == ParseAnd(self, p + 1)
           IN  IF right.ok
                 THEN OrLoop(self, BinaryOp(left, <<"|", "|">>, right.node),
                             right.pos)
                 ELSE right
      ELSE Return(left, p)

\* Parser.parse_or
ParseOr(self, p) ==
    LET left == ParseAnd(self, p)
    IN  IF left.ok THEN OrLoop(self, left.node, left.pos) ELSE left

\* parse_and: the while loop
AndLoop(self, left, p) ==
    IF Current(self, p).type = "AND"
      THEN LET right == ParseEquality(self, p + 1)
           IN  IF right.ok
                 THEN AndLoop(self, BinaryOp(left, <<"&", "&">>, right.node),
                              right.pos)
                 ELSE right
      ELSE Return(left, p)

\* Parser.parse_and
ParseAnd(self, p) ==
    LET left == ParseEquality(self, p)
    IN  IF left.ok THEN AndLoop(self, left.node, left.pos) ELSE left

\* parse_equality: the while loop
EqualityLoop(self, left, p) ==
    IF Current(self, p).type \in {"EQ", "NEQ"}
      THEN LET right == ParseComparison(self, p + 1)
           IN  IF right.ok
                 THEN EqualityLoop(self,
                          BinaryOp(left, Current(self, p).value, right.node),
                          right.pos)
                 ELSE right
      ELSE Return(left, p)

\* Parser.parse_equality
ParseEquality(self, p) ==
    LET left == ParseComparison(self, p)
    IN  IF left.ok THEN EqualityLoop(self, left.node, left.pos) ELSE left

\* parse_comparison: the while loop
ComparisonLoop(self, left, p) ==
    IF Current(self, p).type \in {"LT", "GT", "LTE", "GTE"}
      THEN LET right == Call("parse_range", self, p + 1)
           IN  IF right.ok
                 THEN ComparisonLoop(self,
                          BinaryOp(left, Current(self, p).value, right.node),
                          right.pos)
                 ELSE right
      ELSE Return(left, p)

\* Parser.parse_comparison
ParseComparison(self, p) ==
    LET left == Call("parse_range", self, p)
    IN  IF left.ok THEN ComparisonLoop(self, left.node, left.pos) ELSE left

\* parse_range taking a range as the end of a range
ParseRange_Chained(self, p) ==
    LET left == ParseAddition(self, p)
    IN  IF left.ok
          THEN IF Current(self, left.pos).type = "TO"
                 THEN LET right == Call("parse_range", self, left.pos + 1)
                      IN  IF right.ok
                            THEN Return(RangeExpr(left.node, right.node),
                                        right.pos)
                            ELSE right
                 ELSE left
          ELSE left

\* Parser.parse_range
ParseRange(self, p) ==
    LET left == ParseAddition(self, p)
    IN  IF left.ok
          THEN IF Current(self, left.pos).type = "TO"
                 THEN LET right == ParseAddition(self, left.pos + 1)
                      IN  IF right.ok
                            THEN Return(RangeExpr(left.node, right.node),
                                        right.pos)
                            ELSE right
                 ELSE left
          ELSE left

\* parse_addition taking the rest of the additive chain as right operand
AdditionLoop_RightAssoc(self, left, p) ==
    IF Current(self, p).type \in {"PLUS", "MINUS"}
      THEN LET right == Call("parse_addition", self, p + 1)
           IN  IF right.ok
                 THEN Return(BinaryOp(left, Current(self, p).value,
                                      right.node), right.pos)
                 ELSE right
      ELSE Return(left, p)

\* parse_addition: the while loop
AdditionLoop(self, left, p) ==
    IF Current(self, p).type \in {"PLUS", "MINUS"}
      THEN LET right == ParseMultiplication(self, p + 1)
           IN  IF right.ok
                 THEN AdditionLoop(self,
                          BinaryOp(left, Current(self, p).value, right.node),
                          right.pos)
                 ELSE right
      ELSE Return(left, p)

\* Parser.parse_addition
ParseAddition(self, p) ==
    LET left == ParseMultiplication(self, p)
    IN  IF left.ok THEN AdditionLoop(self, left.node, left.pos) ELSE left

\* parse_multiplication: the while loop
MultiplicationLoop(self, left, p) ==
    IF Current(self, p).type \in {"STAR", "SLASH", "PERCENT"}
      THEN LET right == Call("parse_unary", self, p + 1)
           IN  IF right.ok
                 THEN MultiplicationLoop(self,
                          BinaryOp(left, Current(self, p).value, right.node),
                          right.pos)
                 ELSE right
      ELSE Return(left, p)

\* Parser.parse_multiplication
ParseMultiplication(self, p) ==
    LET left == Call("parse_unary", self, p)
    IN  IF left.ok THEN MultiplicationLoop(self, left.node, left.pos)
        ELSE left

\* Parser.parse_unary
ParseUnary(self, p) ==
    IF Current(self, p).type \in {"BANG", "MINUS"}
      THEN LET operand == ParseUnary(self, p + 1)
           IN  IF operand.ok
                 THEN Return(UnaryOp(Current(self, p).value, operand.node),
                             operand.pos)
                 ELSE operand
      ELSE ParsePostfix(self, p)

\* parse_args_list: while self.match(COMMA): skip_newlines; append
ArgsLoop(self, args, p) ==
    IF Current(self, p).type = "COMMA"
      THEN LET a == Call("parse_expression", self,
                         SkipNewlines(self, p + 1))
           IN  IF ~a.ok THEN a
               ELSE ArgsLoop(self, Append(args, a.node), a.pos)
      ELSE Return(args, SkipNewlines(self, p))

\* Parser.parse_args_list
ParseArgsList(self, p) ==
    LET p1 == SkipNewlines(self, p)
    IN  IF Current(self, p1).type = "RPAREN" THEN Return(<<>>, p1)
        ELSE LET a == Call("parse_expression", self, p1)
             IN  IF ~a.ok THEN a ELSE ArgsLoop(self, <<a.node>>, a.pos)

\* parse_postfix: the loop over calls, members and indexes
PostfixLoop(self, expr, p) ==
    LET type == Current(self, p).type
    IN  CASE type = "LPAREN" ->
               LET args == Call("parse_args_list", self, p + 1)
                   rp == Expect(self, args.pos, "RPAREN")
               IN  IF ~args.ok THEN args
                   ELSE IF ~rp.ok THEN rp
                   ELSE PostfixLoop(self, FunctionCall(expr, args.node),
                                    rp.pos)
          [] type = "DOT" ->
               LET id == Expect(self, p + 1, "IDENT")
               IN  IF ~id.ok THEN id
                   ELSE PostfixLoop(self,
                            MemberAccess(expr, id.node.value), id.pos)
          [] type = "COLONCOLON" ->
               LET id == Expect(self, p + 1, "IDENT")
               IN  IF ~id.ok THEN id
                   ELSE PostfixLoop(self,
                            ModuleAccess(expr, id.node.value), id.pos)
          [] type = "LBRACKET" ->
               LET index == Call("parse_expression", self, p + 1)
                   rb == Expect(self, index.pos, "RBRACKET")
               IN  IF ~index.ok THEN index
                   ELSE IF ~rb.ok THEN rb
                   ELSE PostfixLoop(self, IndexAccess(expr, index.node),
                                    rb.pos)
          [] OTHER -> Return(expr, p)

\* Parser.parse_postfix
ParsePostfix(self, p) ==
    LET expr == ParsePrimary(self, p)
    IN  IF expr.ok THEN PostfixLoop(self, expr.node, expr.pos) ELSE expr

\* parse_array_literal: the elements after the first, a trailing comma let
ArrayLoop(self, elements, p) ==
    IF Current(self, p).type = "COMMA"
      THEN LET p1 == SkipNewlines(self, p + 1)
           IN  IF Current(self, p1).type = "RBRACKET"
                 THEN Return(elements, p1)
                 ELSE LET e == Call("parse_expression", self, p1)
                      IN  IF ~e.ok THEN e
                          ELSE ArrayLoop(self, Append(elements, e.node), e.pos)
      ELSE Return(elements, p)

\* Parser.parse_array_literal
ParseArrayLiteral(self, p) ==
    LET lb == Expect(self, p, "LBRACKET")
        p1 == SkipNewlines(self, lb.pos)
        first == Call("parse_expression", self, p1)
        elements == IF Current(self, p1).type = "RBRACKET"
                      THEN Return(<<>>, p1)
                      ELSE IF ~first.ok THEN first
                      ELSE ArrayLoop(self, <<first.node>>, first.pos)
        rb == Expect(self, SkipNewlines(self, elements.pos), "RBRACKET")
    IN  IF ~lb.ok THEN lb
        ELSE IF ~elements.ok THEN elements
        ELSE IF ~rb.ok THEN rb
        ELSE Return(ArrayLiteral(elements.node), rb.pos)

\* parse_makeout: callee :: member :: ...
RECURSIVE MakeoutCallee(_, _, _)
MakeoutCallee(self, callee, p) ==
    IF Current(self, p).type = "COLONCOLON"
      THEN LET id == Expect(self, p + 1, "IDENT")
           IN  IF ~id.ok THEN id
               ELSE MakeoutCallee(self, ModuleAccess(callee, id.node.value),
                                  id.pos)
      ELSE Return(callee, p)

\* Parser.parse_makeout
ParseMakeout(self, p) ==
    LET kw == Expect(self, p, "MAKEOUT")
        id == Expect(self, kw.pos, "IDENT")
        callee == MakeoutCallee(self, Identifier(id.node.value), id.pos)
        lp == Expect(self, callee.pos, "LPAREN")
        args == Call("parse_args_list", self, lp.pos)
        rp == Expect(self, args.pos, "RPAREN")
    IN  IF ~kw.ok THEN kw
        ELSE IF ~id.ok THEN id
        ELSE IF ~callee.ok THEN callee
        ELSE IF ~lp.ok THEN lp
        ELSE IF ~args.ok THEN args
        ELSE IF ~rp.ok THEN rp
        ELSE Return(MakeoutExpr(callee.node, args.node), rp.pos)

\* _extract_raw_js: the inner loop over a string literal of the raw text,
\* i a 0-based offset of the source
RECURSIVE SkipRawString(_, _, _)
SkipRawString(src, i, quote) ==
    IF i < Len(src) /\ src[i + 1] # quote
      THEN SkipRawString(src, IF src[i + 1] = "\\" THEN i + 2 ELSE i + 1,
                         quote)
      ELSE i

\* _extract_raw_js: the inner loop over a // comment
RECURSIVE SkipRawComment(_, _)
SkipRawComment(src, i) ==
    IF i < Len(src) /\ src[i + 1] # "\n" THEN SkipRawComment(src, i + 1)
    ELSE i

\* _extract_raw_js: the loop over the source; the offset i it ends with
RECURSIVE ScanRaw(_, _, _)
ScanRaw(src, i, depth) ==
    IF i < Len(src) /\ depth > 0
      THEN LET ch == src[i + 1]
           IN  CASE ch = "{" -> ScanRaw(src, i + 1, depth + 1)
                 [] ch = "}" -> ScanRaw(src, i + 1, depth - 1)
                 [] ch \in {"\"", "'"} ->
                      ScanRaw(src, SkipRawString(src, i + 1, ch) + 1, depth)
                 [] ch = "/" /\ i + 1 < Len(src) /\ src[i + 2] = "/" ->
                      ScanRaw(src, SkipRawComment(src, i), depth)
                 [] OTHER -> ScanRaw(src, i + 1, depth)
      ELSE i

\* _extract_raw_js: the loop over the source; the depth it ends with
RECURSIVE ScanRawDepth(_, _, _)
ScanRawDepth(src, i, depth) ==
    IF i < Len(src) /\ depth > 0
      THEN LET ch == src[i + 1]
           IN  CASE ch = "{" -> ScanRawDepth(src, i + 1, depth + 1)
                 [] ch = "}" -> ScanRawDepth(src, i + 1, depth - 1)
                 [] ch \in {"\"", "'"} ->
                      ScanRawDepth(src, SkipRawString(src, i + 1, ch) + 1,
                                   depth)
                 [] ch = "/" /\ i + 1 < Len(src) /\ src[i + 2] = "/" ->
                      ScanRawDepth(src, SkipRawComment(src, i), depth)
                 [] OTHER -> ScanRawDepth(src, i + 1, depth)
      ELSE depth

\* _extract_raw_js: self.pos moved to the first RBRACE token
RECURSIVE ToFirstRbrace(_, _)
ToFirstRbrace(self, p) ==
    IF p < Len(self.tokens) /\ self.tokens[p + 1].type # "RBRACE"
      THEN ToFirstRbrace(self, p + 1) ELSE p

\* _extract_raw_js leaving the cursor at the RBRACE token it stops at
RECURSIVE PastClosingRbrace_NoAdvance(_, _, _)
PastClosingRbrace_NoAdvance(self, p, target_pos) ==
    IF p < Len(self.tokens)
      THEN IF /\ self.tokens[p + 1].type = "RBRACE"
              /\ self.tokens[p + 1].pos >= target_pos
             THEN p
             ELSE PastClosingRbrace_NoAdvance(self, p + 1, target_pos)
      ELSE p

\* _extract_raw_js: self.pos moved past the RBRACE token at or after the
\* closing offset, or to the end of the tokens
RECURSIVE PastClosingRbrace(_, _, _)
PastClosingRbrace(self, p, target_pos) ==
    IF p < Len(self.tokens)
      THEN IF /\ self.tokens[p + 1].type = "RBRACE"
              /\ self.tokens[p + 1].pos >= target_pos
             THEN p + 1
             ELSE PastClosingRbrace(self, p + 1, target_pos)
      ELSE p

\* Parser._extract_raw_js: the raw text as node, the cursor after it
ExtractRawJs(self, p, lbrace_pos) ==
    LET start == lbrace_pos + 1
        i == ScanRaw(self.source, start, 1)
        raw == SubSeq(self.source, start + 1, i - 1)
    IN  Return(raw, PastClosingRbrace(self, ToFirstRbrace(self, p), i - 1))

\* Parser.parse_native_block
ParseNativeBlock(self, p) ==
    LET kw == Expect(self, p, "NATIVE")
        arrow == Expect(self, kw.pos, "ARROW")
        lbrace == Expect(self, arrow.pos, "LBRACE")
        raw == ExtractRawJs(self, lbrace.pos, lbrace.node.pos)
    IN  IF ~kw.ok THEN kw
        ELSE IF ~arrow.ok THEN arrow
        ELSE IF ~lbrace.ok THEN lbrace
        ELSE Return(NativeBlock(raw.node), raw.pos)

\* parse_class_def: the member declarations up to the closing brace
ClassLoop(self, members, p) ==
    LET type == Current(self, p).type
    IN  IF type = "RBRACE" THEN Return(members, p + 1)
        ELSE IF type \notin {"SHARE", "KEEP"} THEN ParseError(self, p)
        ELSE LET m == IF type = "SHARE" THEN Call("parse_share", self, p)
                      ELSE Call("parse_keep", self, p)
             IN  IF ~m.ok THEN m
                 ELSE ClassLoop(self, Append(members, m.node),
                                SkipNewlines(self, m.pos))

\* Parser.parse_class_def
ParseClassDef(self, p) ==
    LET kw == Expect(self, p, "BOY")
        has_parent == Current(self, kw.pos).type = "COLON"
        id == IF has_parent THEN Expect(self, kw.pos + 1, "IDENT")
              ELSE Return(NoneValue, kw.pos)
        parent == IF has_parent THEN id.node.value ELSE NoneValue
        lb == Expect(self, SkipNewlines(self, id.pos), "LBRACE")
        members == ClassLoop(self, <<>>, SkipNewlines(self, lb.pos))
    IN  IF ~kw.ok THEN kw
        ELSE IF ~id.ok THEN id
        ELSE IF ~lb.ok THEN lb
        ELSE IF ~members.ok THEN members
        ELSE Return(ClassDef(<<>>, parent, members.node), members.pos)

\* _is_closure stopping at the first ')' whatever the depth
RECURSIVE ScanParens_FirstRparen(_, _, _)
ScanParens_FirstRparen(self, p, depth) ==
    IF depth > 0 /\ p < Len(self.tokens)
      THEN LET d == IF Current(self, p).type = "RPAREN" THEN 0 ELSE depth
           IN  ScanParens_FirstRparen(self, IF d > 0 THEN p + 1 ELSE p, d)
      ELSE [pos |-> p, depth |-> depth]

\* _is_closure: the scan to the ')' that brings the depth to zero
RECURSIVE ScanParens(_, _, _)
ScanParens(self, p, depth) ==
    IF depth > 0 /\ p < Len(self.tokens)
      THEN LET t == Current(self, p).type
               d == CASE t = "LPAREN" -> depth + 1
                      [] t = "RPAREN" -> depth - 1
                      [] OTHER -> depth
           IN  ScanParens(self, IF d > 0 THEN p + 1 ELSE p, d)
      ELSE [pos |-> p, depth |-> depth]

\* _is_closure: the body of the try; the result and the cursor it leaves
IsClosureScan(self, p) ==
    IF Current(self, p).type # "LPAREN" THEN [result |-> FALSE, pos |-> p]
    ELSE LET scan == ScanParens(self, p + 1, 1)
             p1 == SkipNewlines(self, scan.pos + 1)
         IN  IF scan.depth # 0 THEN [result |-> FALSE, pos |-> scan.pos]
             ELSE [result |-> Current(self, p1).type = "ARROW", pos |-> p1]

\* _is_closure without the finally that restores self.pos
IsClosure_NoRestore(self, p) == IsClosureScan(self, p)

\* Parser._is_closure: finally: self.pos = saved
IsClosure(self, p) == [result |-> IsClosureScan(self, p).result, pos |-> p]

\* Parser.parse_param
ParseParam(self, p) ==
    LET id == Expect(self, SkipNewlines(self, p), "IDENT")
        is_vararg == Current(self, id.pos).type = "DOTDOTDOT"
        p1 == IF is_vararg THEN id.pos + 1 ELSE id.pos
    IN  IF ~id.ok THEN id
        ELSE IF Current(self, p1).type = "COLON"
               THEN LET ann == TypeAnnotation(self, p1 + 1)
                    IN  IF ~ann.ok THEN ann
                        ELSE Return(Param(id.node.value, ann.node, is_vararg),
                                    ann.pos)
               ELSE Return(Param(id.node.value, NoneValue, is_vararg), p1)

\* parse_params: while self.match(COMMA): skip_newlines; append
RECURSIVE ParamsLoop(_, _, _)
ParamsLoop(self, params, p) ==
    IF Current(self, p).type = "COMMA"
      THEN LET a == Call("parse_param", self, SkipNewlines(self, p + 1))
           IN  IF ~a.ok THEN a
               ELSE ParamsLoop(self, Append(params, a.node), a.pos)
      ELSE Return(params, SkipNewlines(self, p))

\* Parser.parse_params
ParseParams(self, p) ==
    LET p1 == SkipNewlines(self, p)
    IN  IF Current(self, p1).type = "RPAREN" THEN Return(<<>>, p1)
        ELSE LET a == Call("parse_param", self, p1)
             IN  IF ~a.ok THEN a ELSE ParamsLoop(self, <<a.node>>, a.pos)

\* parse_closure keeping the expression itself as the body
ExpressionBody_Bare(expr) == expr

\* parse_closure: body = Block(statements=[ReturnStatement(value=expr)])
ExpressionBody(expr) == Block(<<ReturnStatement(expr)>>)

\* Parser.parse_closure
ParseClosure(self, p) ==
    LET lp == Expect(self, p, "LPAREN")
        params == Call("parse_params", self, lp.pos)
        rp == Expect(self, params.pos, "RPAREN")
        arrow == Expect(self, SkipNewlines(self, rp.pos), "ARROW")
        p1 == SkipNewlines(self, arrow.pos)
    IN  IF ~lp.ok THEN lp
        ELSE IF ~params.ok THEN params
        ELSE IF ~rp.ok THEN rp
        ELSE IF ~arrow.ok THEN arrow
        ELSE IF Current(self, p1).type = "LBRACE"
               THEN LET body == Call("parse_block", self, p1)
                    IN  IF ~body.ok THEN body
                        ELSE Return(Closure(params.node, body.node), body.pos)
               ELSE LET expr == Call("parse_expression", self, p1)
                    IN  IF ~expr.ok THEN expr
                        ELSE Return(Closure(params.node,
                                            ExpressionBody(expr.node)),
                                    expr.pos)

\* parse_paren_or_closure: the parenthesized expression, from saved_pos
ParseParenthesized(self, p) ==
    LET lp == Expect(self, p, "LPAREN")
        expr == Call("parse_expression", self, SkipNewlines(self, lp.pos))
        rp == Expect(self, SkipNewlines(self, expr.pos), "RPAREN")
    IN  IF ~lp.ok THEN lp
        ELSE IF ~expr.ok THEN expr
        ELSE IF ~rp.ok THEN rp
        ELSE Return(expr.node, rp.pos)

\* parse_paren_or_closure trying the parenthesized expression when
\* parse_closure raises
ParseParenOrClosure_Fallback(self, p) ==
    LET la == IsClosure(self, p)
        c == Call("parse_closure", self, la.pos)
    IN  IF la.result /\ c.ok THEN c ELSE ParseParenthesized(self, p)

\* Parser.parse_paren_or_closure
ParseParenOrClosure(self, p) ==
    LET la == IsClosure(self, p)
    IN  IF la.result THEN Call("parse_closure", self, la.pos)
        ELSE ParseParenthesized(self, p)

\* Parser.parse_primary
ParsePrimary(self, p) ==
    LET tok == Current(self, p)
    IN  CASE tok.type \in {"INT", "FLOAT"} ->
               Return(NumberLiteral(tok.value), p + 1)
          [] tok.type = "STRING" -> Return(StringLiteral(tok.value), p + 1)
          [] tok.type = "YES" -> Return(BoolLiteral(TRUE), p + 1)
          [] tok.type = "NO" -> Return(BoolLiteral(FALSE), p + 1)
          [] tok.type = "LBRACKET" -> Call("parse_array_literal", self, p)
          [] tok.type = "MAKEOUT" -> Call("parse_makeout", self, p)
          [] tok.type = "NATIVE" /\ PeekToken(self, p, 1).type = "ARROW" ->
               Call("parse_native_block", self, p)
          [] tok.type = "BOY" -> Call("parse_class_def", self, p)
          [] tok.type = "LPAREN" -> Call("parse_paren_or_closure", self, p)
          [] tok.type = "IDENT" -> Return(Identifier(tok.value), p + 1)
          [] tok.type = "NATIVE" /\ PeekToken(self, p, 1).type # "ARROW" ->
               Return(Identifier(<<"n", "a", "t", "i", "v", "e">>), p + 1)
          [] OTHER -> ParseError(self, p)

\* parse_module: the loop over the statements
RECURSIVE ModuleLoop(_, _, _)
ModuleLoop(self, stmts, p) ==
    IF Current(self, p).type = "EOF"
      THEN Return(Module("__main__", stmts), p)
      ELSE LET s == Call("parse_statement", self, p)
           IN  IF ~s.ok THEN s
               ELSE ModuleLoop(self, Append(stmts, s.node),
                               SkipNewlines(self, s.pos))

\* Parser.parse_module
parse_module(self) == ModuleLoop(self, <<>>, SkipNewlines(self, 0))

\* self.<method>(): the call of a method of the Parser, by its name
Call(method, self, p) ==
    CASE method = "parse_statement" -> ParseStatement(self, p)
      [] method = "parse_block" -> ParseBlock(self, p)
      [] method = "parse_expression" -> ParseExpression(self, p)
      [] method = "parse_or" -> ParseOr(self, p)
      [] method = "parse_and" -> ParseAnd(self, p)
      [] method = "parse_equality" -> ParseEquality(self, p)
      [] method = "parse_comparison" -> ParseComparison(self, p)
      [] method = "parse_range" -> ParseRange(self, p)
      [] method = "parse_addition" -> ParseAddition(self, p)
      [] method = "parse_multiplication" -> ParseMultiplication(self, p)
      [] method = "parse_unary" -> ParseUnary(self, p)
      [] method = "parse_postfix" -> ParsePostfix(self, p)
      [] method = "parse_primary" -> ParsePrimary(self, p)
      [] method = "parse_args_list" -> ParseArgsList(self, p)
      [] method = "parse_adopt" -> ParseAdopt(self, p)
      [] method = "parse_share" -> ParseShare(self, p)
      [] method = "parse_if" -> ParseIf(self, p)
      [] method = "parse_while" -> ParseWhile(self, p)
      [] method = "parse_foreach" -> ParseForeach(self, p)
      [] method = "parse_return" -> ParseReturn(self, p)
      [] method = "parse_array_literal" -> ParseArrayLiteral(self, p)
      [] method = "parse_makeout" -> ParseMakeout(self, p)
      [] method = "parse_native_block" -> ParseNativeBlock(self, p)
      [] method = "parse_class_def" -> ParseClassDef(self, p)
      [] method = "parse_paren_or_closure" -> ParseParenOrClosure(self, p)
      [] method = "parse_closure" -> ParseClosure(self, p)
      [] method = "parse_params" -> ParseParams(self, p)
      [] method = "parse_param" -> ParseParam(self, p)
      [] method = "parse_keep" -> ParseKeep(self, p, FALSE)
      [] method = "parse_keep(is_shared=True)" -> ParseKeep(self, p, TRUE)
      [] method = "parse_module" -> parse_module(self)

\* Lexer.tokenize as one function: the loop from cursor st
RECURSIVE TokenizeFrom(_, _, _)
TokenizeFrom(src, st, toks) ==
    LET st1 == SkipWhitespace(src, st)
    IN  IF st.pos >= Len(src) \/ st1.pos >= Len(src)
          THEN [kind |-> "returned",
                tokens |-> Finish(toks, IF st.pos >= Len(src) THEN st
                                        ELSE st1)]
          ELSE LET r == ScanToken(src, st1)
               IN  CASE r.kind = "token" ->
                          TokenizeFrom(src, r.st, Append(toks, r.tok))
                     [] r.kind = "comment" -> TokenizeFrom(src, r.st, toks)
                     [] OTHER -> [kind |-> r.kind, tokens |-> <<>>]

\* Lexer(source).tokenize()
Tokenize(src) ==
    TokenizeFrom(src, [pos |-> 0, line |-> 1, col |-> 1], <<>>)

\* parse(source): the Module, or the exception raised
parse(src) ==
    LET lexed == Tokenize(src)
    IN  IF lexed.kind # "returned"
          THEN [ok |-> FALSE, node |-> [kind |-> lexed.kind], pos |-> 0]
          ELSE Call("parse_module", ParserOf(lexed.tokens, src), 0)

\* no Parser constructed
ParserIdle ==
    /\ parseState = "idle"
    /\ ast = NoneValue
    /\ parserPos = 0
    /\ savedPos = 0
    /\ lookahead = FALSE

----------------------------------------------------------------------------
(* The specifications: a compilation run of flc.py, and a run of the lexer *)

Init == ResolverInit /\ LexerIdle /\ ParserIdle

Next == ResolverNext

Spec == Init /\ [][Next]_vars

LexInit == LexerInit /\ ResolverIdle /\ ParserIdle

LexNext == LexerNext

SpecLexer == LexInit /\ [][LexNext]_vars

\* the lexer on source texts of digits, dots and letters
NumberAlphabet == {"1", "2", ".", "a"}

NumberInit ==
    /\ source \in SeqsUpTo(NumberAlphabet, MaxNumLen)
    /\ pos = 0
    /\ line = 1
    /\ col = 1
    /\ tokens = <<>>
    /\ lexState = "scanning"
    /\ errLine = 0
    /\ errCol = 0
    /\ ResolverIdle
    /\ ParserIdle

SpecNumber == NumberInit /\ [][LexNext]_vars

----------------------------------------------------------------------------
(* A Parser at work on the tokens of a source text *)

\* source texts put together from fragments
RECURSIVE Flatten(_)
Flatten(ss) == IF ss = <<>> THEN <<>> ELSE ss[1] \o Flatten(Tail(ss))

\* parse(): Lexer(source) is about to tokenize; Parser(tokens, source)
\* follows with pos = 0
ParserInit ==
    /\ pos = 0
    /\ line = 1
    /\ col = 1
    /\ tokens = <<>>
    /\ lexState = "scanning"
    /\ errLine = 0
    /\ errCol = 0
    /\ parseState = "ready"
    /\ ast = NoneValue
    /\ parserPos = 0
    /\ savedPos = 0
    /\ lookahead = FALSE
    /\ ResolverIdle

\* parse(): parser.parse_module() on the tokens the lexer returned
ParseTokens ==
    /\ lexState = "returned"
    /\ parseState = "ready"
    /\ LET r == Call("parse_module", ParserOf(tokens, source), 0)
       IN  /\ parseState' = IF r.ok THEN "Module" ELSE "ParseError"
           /\ ast' = r.node
           /\ parserPos' = r.pos
    /\ UNCHANGED <<savedPos, lookahead>>
    /\ UNCHANGED <<resolverVars, lexerVars>>

\* Parser._is_closure called with the cursor at some token
IsClosureCall ==
    /\ lexState = "returned"
    /\ parseState = "ready"
    /\ \E p \in 0..(Len(tokens) - 1) :
          LET r == IsClosure(ParserOf(tokens, source), p)
          IN  /\ savedPos' = p
              /\ lookahead' = r.result
              /\ parserPos' = r.pos
    /\ parseState' = "is_closure"
    /\ UNCHANGED ast
    /\ UNCHANGED <<resolverVars, lexerVars>>

\* Parser.parse_paren_or_closure called with the cursor at a '(' token, as
\* parse_primary calls it
ParenOrClosureCall ==
    /\ lexState = "returned"
    /\ parseState = "ready"
    /\ \E p \in 0..(Len(tokens) - 1) :
          /\ tokens[p + 1].type = "LPAREN"
          /\ LET r == Call("parse_paren_or_closure",
                        ParserOf(tokens, source), p)
             IN  /\ savedPos' = p
                 /\ ast' = r.node
                 /\ parserPos' = r.pos
                 /\ parseState' = "paren_or_closure"
    /\ UNCHANGED lookahead
    /\ UNCHANGED <<resolverVars, lexerVars>>

\* Parser.parse_native_block called with the cursor at the first token, as
\* parse_primary calls it at 'native' '=>'
NativeBlockCall ==
    /\ lexState = "returned"
    /\ parseState = "ready"
    /\ tokens[1].type = "NATIVE"
    /\ LET r == Call("parse_native_block", ParserOf(tokens, source), 0)
       IN  /\ parseState' = IF r.ok THEN "native_block" ELSE "ParseError"
           /\ ast' = r.node
           /\ parserPos' = r.pos
    /\ savedPos' = 0
    /\ UNCHANGED lookahead
    /\ UNCHANGED <<resolverVars, lexerVars>>

\* parse(source): the lexer's steps, then parse_module
ParseNext == LexStep \/ LexFinish \/ ParseTokens

\* expression statements: an operand, then operators each with an operand
OperandTexts == {<<"a">>, <<"!", "a", ".", "b">>}

OperatorTexts ==
    {<<"|", "|">>, <<"&", "&">>, <<"=", "=">>, <<"<">>, <<" ", "t", "o", " ">>,
     <<"+">>, <<"-">>, <<"*">>}

OperationTexts == {o \o a : o \in OperatorTexts, a \in OperandTexts}

ExprTexts ==
    {a \o Flatten(u) : a \in OperandTexts, u \in SeqsUpTo(OperationTexts, MaxOps)}

ExprInit == source \in ExprTexts /\ ParserInit

SpecExpr == ExprInit /\ [][ParseNext]_vars

\* source texts that open a parenthesis: then closing parentheses, names,
\* parenthesized names, newlines and '=>' with a body
ParenFragments ==
    {<<")">>, <<"x">>, <<"=", ">", "x">>, <<"\n">>, <<"(", "x", ")">>,
     <<"x", ")">>}

ParenTexts ==
    {<<"(">> \o Flatten(u) : u \in SeqsUpTo(ParenFragments, MaxParen)}

ParenInit == source \in ParenTexts /\ ParserInit

ParenNext == LexStep \/ LexFinish \/ IsClosureCall \/ ParenOrClosureCall

SpecParen == ParenInit /\ [][ParenNext]_vars

\* closures with an expression body: parameters, '=>', an expression
ClosureHeads ==
    {<<"(", ")", "=", ">">>, <<"(", "x", ")", "=", ">">>,
     <<"(", "x", ",", "y", ")", " ", "=", ">", " ">>}

BodyOperands == {<<"a">>, <<"!", "a">>, <<"1">>}

BodyOperations ==
    {<<"+", "a">>, <<" ", "t", "o", " ", "a">>, <<"*", "a">>, <<".", "b">>}

BodyTexts ==
    {a \o Flatten(u) : a \in BodyOperands,
                       u \in SeqsUpTo(BodyOperations, MaxBody)}

ClosureTexts == {h \o e : h \in ClosureHeads, e \in BodyTexts}

ClosureInit == source \in ClosureTexts /\ ParserInit

SpecClosure == ClosureInit /\ [][ParseNext]_vars

\* source texts that open a raw block: 'native=>{', then names, a string
\* holding '}', semicolons, '#', braces, and a statement on a new line
RawHead == <<"n", "a", "t", "i", "v", "e", "=", ">", "{">>

RawFragments ==
    {<<"a">>, <<"\"", "}", "\"">>, <<";">>, <<"#">>, <<"{">>, <<"}">>,
     <<"\n", "b">>}

RawTexts == {RawHead \o Flatten(u) : u \in SeqsUpTo(RawFragments, MaxRaw)}

RawInit == source \in RawTexts /\ ParserInit

SpecRaw == RawInit /\ [][ParseNext]_vars

\* source texts that open a raw block: 'native=>{', then names, what the
\* lexer has no token for, strings with a newline or a semicolon inside, a
\* comment, newlines and closing braces
RejectFragments ==
    {<<"a">>, <<";">>, <<"'">>, <<"&">>, <<"|">>, <<"\"", "\n", "\"">>,
     <<"\"", ";", "\"">>, <<"#", ";">>, <<"\n">>, <<"}">>}

RejectTexts ==
    {RawHead \o Flatten(u) : u \in SeqsUpTo(RejectFragments, MaxReject)}

RejectInit == source \in RejectTexts /\ ParserInit

SpecReject == RejectInit /\ [][ParseNext]_vars

\* the lexer's steps, then parse_native_block on the tokens
NativeNext == LexStep \/ LexFinish \/ NativeBlockCall

SpecNative == RawInit /\ [][NativeNext]_vars

\* source texts of statements, well-formed or not: names, '=', parentheses,
\* braces, newlines, 'keep' and the opening of a raw block
SoupFragments ==
    {<<"a">>, <<"=">>, <<"(", ")">>, <<")">>, <<"{">>, <<"}">>, <<"\n">>,
     <<"k", "e", "e", "p", " ">>, RawHead}

SoupTexts == {Flatten(u) : u \in SeqsUpTo(SoupFragments, MaxSoup)}

SoupInit == source \in SoupTexts /\ ParserInit

SpecSoup == SoupInit /\ [][ParseNext]_vars

\* expressions that hold a class definition: 'boy{}' (or a name) inside up
\* to n of parentheses, an array, a member binding of a class, a closure
RECURSIVE ClassValues(_)
ClassValues(n) ==
    IF n = 0 THEN {<<"b", "o", "y", "{", "}">>, <<"a">>}
    ELSE LET w == ClassValues(n - 1)
         IN  w \cup {<<"(">> \o v \o <<")">> : v \in w}
               \cup {<<"[">> \o v \o <<"]">> : v \in w}
               \cup {<<"b", "o", "y", "{", "k", "e", "e", "p", " ", "d", "=">>
                        \o v \o <<"}">> : v \in w}
               \cup {<<"(", ")", "=", ">">> \o v : v \in w}

\* what precedes the expression: a binding, a shared binding, an assignment,
\* or nothing
StatementHeads ==
    {<<"k", "e", "e", "p", " ", "c", "=">>,
     <<"s", "h", "a", "r", "e", " ", "k", "e", "e", "p", " ", "c", "=">>,
     <<"e", "=">>, <<>>}

ClassTexts == {h \o v : h \in StatementHeads, v \in ClassValues(MaxWrap)}

ClassInit == source \in ClassTexts /\ ParserInit

SpecClass == ClassInit /\ [][ParseNext]_vars

\* statements that begin with an expression: the expression, then
\* operators ('=', '+=', '-=', '*=', '/=', '==') each with a right-hand side
TargetTexts ==
    {<<"a">>, <<"a", ".", "b">>, <<"1">>, <<"a", "+", "b">>,
     <<"a", "(", "b", ")">>}

AssignTexts ==
    {<<"=">>, <<"+", "=">>, <<"-", "=">>, <<"*", "=">>, <<"/", "=">>,
     <<"=", "=">>}

ValueTexts == {<<"b", "*", "c">>}

AssignmentTexts ==
    {t \o Flatten(u) :
        t \in TargetTexts,
        u \in SeqsUpTo({o \o v : o \in AssignTexts, v \in ValueTexts},
                       MaxAssign)}

AssignmentInit == source \in AssignmentTexts /\ ParserInit

SpecAssignment == AssignmentInit /\ [][ParseNext]_vars

----------------------------------------------------------------------------
(* Properties of the module resolver and the driver *)

\* discover_modules has returned its list to compile_file
DiscoverReturned ==
    \/ pc \in {"parse", "write", "done"}
    \/ pc = "exit" /\ exitCause = "codegen"

NotStdlib(p) == p[1] \notin STDLIB_MODULES

\* the import paths of the adopt statements of a module, standard library
\* imports left out
ImportsOf(m) ==
    {m.source.imports[k] : k \in {j \in 1..Len(m.source.imports) :
                                     NotStdlib(m.source.imports[j])}}

DottedAt(i) == ordered[i].dotted

\* the import graph of the returned list, over dotted paths
ImportEdges ==
    UNION {{<<ordered[i].dotted, p>> : p \in ImportsOf(ordered[i])} :
             i \in 1..Len(ordered)}

\* the dotted paths reached from those of S along at most n more edges
RECURSIVE ReachedFrom(_, _, _)
ReachedFrom(E, S, n) ==
    IF n = 0 THEN S
    ELSE ReachedFrom(E, S \cup {e[2] : e \in {d \in E : d[1] \in S}}, n - 1)

Acyclic ==
    LET E == ImportEdges
    IN  \A i \in 1..Len(ordered) :
            DottedAt(i) \notin
                ReachedFrom(E, {e[2] : e \in {d \in E : d[1] = DottedAt(i)}},
                            Len(ordered))

EachDottedOnce ==
    \A i, j \in 1..Len(ordered) : DottedAt(i) = DottedAt(j) => i = j

ImportsFirst ==
    \A i \in 1..Len(ordered) : \A p \in ImportsOf(ordered[i]) :
        \E j \in 1..(i - 1) : DottedAt(j) = p

\* C1: for an import graph without cycles, the list discover_modules
\* returns holds each dotted path exactly once, holds every module after
\* every non-standard-library module it imports, and ends with the entry
\* module '__main__'.
C1_DependencyOrder ==
    (DiscoverReturned /\ Acyclic) =>
        /\ EachDottedOnce
        /\ ImportsFirst
        /\ Len(ordered) > 0
        /\ Last(ordered).dotted = MainDotted

\* A imports B and C, B imports C: the list is [C, B, A], with one C.
C1_Witness ==
    /\ DiscoverReturned
    /\ Acyclic
    /\ fsContent[EntryFile].imports = << <<"d", "a">>, <<"b">> >>
    /\ fsContent[<<"d", "a">>].imports = << <<"b">> >>
    /\ [i \in 1..Len(ordered) |-> DottedAt(i)]
          = << <<"b">>, <<"d", "a">>, MainDotted >>

Exists(f) == f \in FileUniverse /\ fsExists[f] = "yes"

\* the file an import of a module in directory dir resolves to
ResolvedFile(p, dir) == IF Exists(p) THEN p ELSE dir \o p

FilesReturned == {ordered[i].file : i \in 1..Len(ordered)}

\* C2: every file that a non-standard-library import of a returned module
\* resolves to (under the entry directory if it exists there, otherwise
\* under the importing file's directory) is in the returned list.
C2_AllImportsReturned ==
    DiscoverReturned =>
        \A i \in 1..Len(ordered) : \A p \in ImportsOf(ordered[i]) :
            ResolvedFile(p, DirName(ordered[i].file)) \in FilesReturned

FailedFiles == {f \in FileUniverse : fsContent[f].err \in {"lex", "parse"}}

\* C3: once the lexing or parsing of a module has failed, the run has
\* exited with that error and does nothing more: the failing file is the
\* last file read and the last parsed, no module was handed to the second
\* parse, code generation was not invoked and no output was written.
C3_FatalOnFirstError ==
    \A f \in FailedFiles :
        /\ pc = "exit"
        /\ exitCause = fsContent[f].err
        /\ Last(reads) = f
        /\ Last(parses) = f
        /\ modules = <<>>
        /\ ~codegenInvoked
        /\ ~outputWritten
        /\ ~ENABLED ResolverNext

\* a lexical error in the second of three modules: the entry file's second
\* import is never looked up, read or parsed.
C3_Witness ==
    /\ fsContent[EntryFile].imports = << <<"d", "a">>, <<"e", "a">> >>
    /\ fsContent[<<"d", "a">>].err = "lex"
    /\ reads = <<EntryFile, <<"d", "a">> >>
    /\ parses = reads
    /\ Len(lookups) = 1
    /\ fsContent[<<"e", "a">>] = Unread
    /\ pc = "exit"

Unresolved(l) == \A k \in 1..Len(l.tried) : ~Exists(l.tried[k])

\* C4: an import found neither under the entry directory nor under the
\* importing file's directory ends the run at once with exit status 1: it
\* is the last import looked at, no call of visit follows it, no list is
\* returned and no output is written.
C4_UnresolvedImportExits ==
    \A k \in 1..Len(lookups) :
        Unresolved(lookups[k]) =>
            /\ k = Len(lookups)
            /\ pc = "exit"
            /\ exitCause = "resolve"
            /\ call = NoCall
            /\ ~DiscoverReturned
            /\ ~codegenInvoked
            /\ ~outputWritten
            /\ ~ENABLED ResolverNext

\* the second import of a module that was itself imported is unresolved,
\* after two modules were read
C4_Witness ==
    /\ Len(lookups) >= 2
    /\ Unresolved(lookups[Len(lookups)])
    /\ Len(lookups[Len(lookups)].tried) = 2
    /\ lookups[Len(lookups)].tried[1] # lookups[Len(lookups)].tried[2]
    /\ Len(reads) = 2
    /\ pc = "exit"

\* C5: an import whose first segment names a standard-library module is
\* never looked up in the file system, never ends the run as unresolved and
\* never becomes a module of the resolver, whether or not a file of that
\* name exists.
C5_StdlibNeverResolved ==
    /\ \A k \in 1..Len(lookups) : NotStdlib(lookups[k].imp)
    /\ \A d \in visited : NotStdlib(d)
    /\ \A i \in 1..Len(ordered) : NotStdlib(DottedAt(i))
    /\ call # NoCall => NotStdlib(call.dotted)
    /\ \A k \in 1..Len(reads) : NotStdlib(reads[k])
    /\ exitCause = "resolve" =>
          lookups # <<>> /\ NotStdlib(Last(lookups).imp)

\* the file io.fl exists, a module that adopts io was returned and the run
\* went on to write its output
C5_Witness ==
    /\ fsExists[<<"io">>] = "yes"
    /\ \E i \in 1..Len(ordered) :
          \E k \in 1..Len(ordered[i].source.imports) :
              ordered[i].source.imports[k] = <<"io">>
    /\ Len(ordered) >= 2
    /\ outputWritten

----------------------------------------------------------------------------
(* Properties of the lexer *)

Returned == lexState = "returned"

TokensOfType(type) == {i \in 1..Len(tokens) : tokens[i].type = type}

\* 0-based offsets of the source, and the character at one
Offsets == 0..(Len(source) - 1)

CharAt(p) == source[p + 1]

\* the source text from offset p up to, not including, offset q
Span(p, q) == SubSeq(source, p + 1, q)

Whitespace == {" ", "\t", "\r"}

\* whitespace, then possibly a comment that runs to the end of the text,
\* and no newline
IsTrivia(text) ==
    /\ \A k \in 1..Len(text) : text[k] # "\n"
    /\ \E n \in 0..Len(text) :
          /\ \A k \in 1..n : text[k] \in Whitespace
          /\ n = Len(text) \/ text[n + 1] = "#"

\* C6: a call of tokenize that returns, returns a sequence with exactly one
\* EOF token, which is its last element; a source of whitespace and
\* comments only returns just that token.
C6_EndsInOneEof ==
    /\ Returned =>
          /\ Len(tokens) >= 1
          /\ TokensOfType("EOF") = {Len(tokens)}
    /\ ~Returned => TokensOfType("EOF") = {}
    /\ IsTrivia(source) =>
          /\ lexState \in {"scanning", "returned"}
          /\ Returned => Len(tokens) = 1

\* two tokens returned before the EOF token
C6_Witness ==
    /\ Returned
    /\ Len(tokens) = 3
    /\ tokens[1].type = "IDENT"
    /\ tokens[2].type = "NEWLINE"
    /\ tokens[3].type = "EOF"

NewlinesBefore(p) == Cardinality({q \in 0..(p - 1) : CharAt(q) = "\n"})

\* the offset after the last newline before offset p (0 when none)
LineStart(p) ==
    LET nl == {q \in 0..(p - 1) : CharAt(q) = "\n"}
    IN  IF nl = {} THEN 0
        ELSE (CHOOSE q \in nl : \A r \in nl : r <= q) + 1

DecimalDigitChars == {"0", "1", "2", "3", "4", "5", "6", "7", "8", "9"}

\* the character at the token's offset is the first of its lexeme
StartsLexeme(t) ==
    CASE t.type = "EOF" -> t.pos = Len(source)
      [] t.type = "NEWLINE" -> t.pos < Len(source) /\ CharAt(t.pos) = "\n"
      [] t.type = "STRING" -> t.pos < Len(source) /\ CharAt(t.pos) = "\""
      [] t.type \in {"INT", "FLOAT"} ->
           t.pos < Len(source) /\ CharAt(t.pos) \in DecimalDigitChars
      [] OTHER -> t.pos < Len(source) /\ CharAt(t.pos) = t.value[1]

\* C7: every token emitted carries the position of its first character:
\* pos is that character's offset, line is 1 plus the newlines before it,
\* col is 1 plus the characters between the last newline before it and it.
C7_TokenPositions ==
    \A i \in 1..Len(tokens) :
        LET t == tokens[i]
        IN  /\ t.pos \in 0..Len(source)
            /\ StartsLexeme(t)
            /\ t.line = 1 + NewlinesBefore(t.pos)
            /\ t.col = 1 + (t.pos - LineStart(t.pos))
            /\ i > 1 => tokens[i - 1].pos < t.pos

\* a two-character operator on the second line, after a token on the first
C7_Witness ==
    /\ Returned
    /\ \E i \in 1..Len(tokens) :
          /\ tokens[i].type \in {"EQ", "ARROW", "AND", "OR"}
          /\ tokens[i].line = 2
          /\ tokens[i].pos = 1

\* the text of a string literal between its quotes, decoded
RECURSIVE Decoded(_)
Decoded(text) ==
    IF text = <<>> THEN <<>>
    ELSE IF text[1] = "\\"
           THEN IF Len(text) = 1 THEN <<"?">>
                ELSE Escape(text[2]) \o Decoded(SubSeq(text, 3, Len(text)))
           ELSE <<text[1]>> \o Decoded(Tail(text))

\* no quote and no newline of the text stands unescaped
RECURSIVE AllEscaped(_)
AllEscaped(text) ==
    IF text = <<>> THEN TRUE
    ELSE IF text[1] = "\\"
           THEN Len(text) >= 2 /\ AllEscaped(SubSeq(text, 3, Len(text)))
           ELSE text[1] \notin {"\"", "\n"} /\ AllEscaped(Tail(text))

AllDecimal(text) == \A k \in 1..Len(text) : text[k] \in DecimalDigitChars

\* text is a spelling of token t
IsLexemeOf(t, text) ==
    CASE t.type = "EOF" -> text = <<>>
      [] t.type = "NEWLINE" -> text = <<"\n">>
      [] t.type = "STRING" ->
           /\ Len(text) >= 2
           /\ text[1] = "\"" /\ text[Len(text)] = "\""
           /\ AllEscaped(SubSeq(text, 2, Len(text) - 1))
           /\ Decoded(SubSeq(text, 2, Len(text) - 1)) = t.value
      [] t.type = "INT" ->
           text # <<>> /\ AllDecimal(text) /\ IntOf(text) = t.value
      [] t.type = "FLOAT" ->
           \E d \in 2..(Len(text) - 1) :
               /\ text[d] = "."
               /\ AllDecimal(SubSeq(text, 1, d - 1))
               /\ AllDecimal(SubSeq(text, d + 1, Len(text)))
               /\ FloatOf(SubSeq(text, 1, d - 1),
                          SubSeq(text, d + 1, Len(text))) = t.value
      [] OTHER -> text # <<>> /\ text = t.value

\* the text from token i to the next token (to the end for the last)
SpanOf(i) ==
    Span(tokens[i].pos,
         IF i < Len(tokens) THEN tokens[i + 1].pos ELSE Len(source))

LexemeThenTrivia(t, text) ==
    \E n \in 0..Len(text) :
        /\ IsLexemeOf(t, SubSeq(text, 1, n))
        /\ IsTrivia(SubSeq(text, n + 1, Len(text)))

\* C8: when tokenize returns, the text before the first token is
\* whitespace and comments only, and the text from each token's offset to
\* the next token's offset is that token's lexeme followed by whitespace
\* and comments only; so the spans rebuild the source.
C8_RoundTrip ==
    Returned =>
        /\ IsTrivia(Span(0, tokens[1].pos))
        /\ \A i \in 1..Len(tokens) :
              /\ tokens[i].pos <= Len(source)
              /\ i > 1 => tokens[i - 1].pos <= tokens[i].pos
              /\ LexemeThenTrivia(tokens[i], SpanOf(i))

\* a token followed by whitespace and a comment, after leading whitespace
C8_Witness ==
    /\ Returned
    /\ Len(tokens) = 2
    /\ tokens[1].pos = 1
    /\ Len(source) = 3
    /\ source[3] = "#"

CanBeginToken(ch) ==
    \/ ch \in {"\n", "#", "\"", "_"}
    \/ ch \in DecimalDigitChars
    \/ IsAlpha(ch)
    \/ ch \in {"+", "-", "*", "/", "%", "=", "!", "<", ">", "&", "|", ":",
               ".", "(", ")", "{", "}", "[", "]", ","}

\* the string literal opened before offset p is closed: a quote comes
\* before any unescaped newline and before the end of the source
RECURSIVE ClosedFrom(_)
ClosedFrom(p) ==
    IF p >= Len(source) THEN FALSE
    ELSE CASE CharAt(p) = "\"" -> TRUE
           [] CharAt(p) = "\n" -> FALSE
           [] CharAt(p) = "\\" -> ClosedFrom(p + 2)
           [] OTHER -> ClosedFrom(p + 1)

\* the offset of the first character after the whitespace at the cursor
RECURSIVE NextStart(_)
NextStart(p) ==
    IF p < Len(source) /\ CharAt(p) \in Whitespace
      THEN NextStart(p + 1) ELSE p

\* at the place where the next token would begin stands a character that
\* cannot begin one, a string literal that is not closed, or a single
\* '&' or '|'
LexicalErrorAhead ==
    /\ lexState = "scanning"
    /\ LET p == NextStart(pos)
       IN  /\ p < Len(source)
           /\ \/ ~CanBeginToken(CharAt(p))
              \/ CharAt(p) = "\"" /\ ~ClosedFrom(p + 1)
              \/ /\ CharAt(p) \in {"&", "|"}
                 /\ (p + 1 >= Len(source) \/ CharAt(p + 1) # CharAt(p))

\* C9: an unrecognized character, an unterminated string literal and a
\* single '&' or '|' each make tokenize raise LexerError with a line and a
\* column, at the first of them, and no tokens are returned.
C9_LexicalErrors ==
    [][LexicalErrorAhead =>
          /\ lexState' = "LexerError"
          /\ errLine' >= 1
          /\ errCol' >= 1
          /\ tokens' = tokens]_vars

\* the offset of the quote that closes the string literal opened before p
RECURSIVE ClosingQuote(_)
ClosingQuote(p) ==
    IF p >= Len(source) THEN Len(source)
    ELSE CASE CharAt(p) = "\"" -> p
           [] CharAt(p) = "\\" -> ClosingQuote(p + 2)
           [] OTHER -> ClosingQuote(p + 1)

\* offset p lies inside a string literal, after its opening quote
InStringLiteral(p) ==
    \E i \in TokensOfType("STRING") :
        tokens[i].pos < p /\ p <= ClosingQuote(tokens[i].pos + 1)

\* offset p lies in a comment: from a '#' outside a string literal up to,
\* not including, the end of its line
InComment(p) ==
    \E q \in 0..p :
        /\ CharAt(q) = "#"
        /\ ~InStringLiteral(q)
        /\ \A r \in q..p : CharAt(r) # "\n"

\* C10: when tokenize returns, the NEWLINE tokens are, one for one, the
\* newline characters outside string literals (the newline that ends a
\* comment among them), and no token stands at a space, a tab, a carriage
\* return or a character of a comment.
C10_NewlinesAndTrivia ==
    Returned =>
        /\ {tokens[i].pos : i \in TokensOfType("NEWLINE")}
              = {p \in Offsets : CharAt(p) = "\n" /\ ~InStringLiteral(p)}
        /\ \A i, j \in TokensOfType("NEWLINE") :
              tokens[i].pos = tokens[j].pos => i = j
        /\ \A i \in 1..(Len(tokens) - 1) :
              /\ tokens[i].pos \in Offsets
              /\ CharAt(tokens[i].pos) \notin Whitespace
              /\ ~InComment(tokens[i].pos)

\* a comment ended by a newline: the newline is the only token before EOF
C10_Witness ==
    /\ Returned
    /\ Len(source) = 3
    /\ source[1] = "#"
    /\ source[3] = "\n"
    /\ Len(tokens) = 2
    /\ tokens[1].type = "NEWLINE"

\* the offset after the run of decimal digits that begins at offset p
RECURSIVE DigitRunEnd(_)
DigitRunEnd(p) ==
    IF p < Len(source) /\ CharAt(p) \in DecimalDigitChars
      THEN DigitRunEnd(p + 1) ELSE p

\* the '.' at offset p is followed by a digit
DotThenDigit(p) ==
    /\ p + 1 < Len(source)
    /\ CharAt(p) = "."
    /\ CharAt(p + 1) \in DecimalDigitChars

TokenTypes == [i \in 1..Len(tokens) |-> tokens[i].type]

\* C11: read_number takes a '.' after its digits for a decimal point only
\* when a digit follows the '.': then the token is one FLOAT up to the end
\* of the second digit run; otherwise it is an INT that ends with the
\* first digit run, and a '.' standing there begins a token of its own
\* (DOT, or DOTDOTDOT when it is the first of three dots).
\* '1.2' is FLOAT; '1.a' is INT DOT IDENT; '1.' is INT DOT; '1.2.1' is
\* FLOAT 1.2, DOT, INT 1.
C11_DecimalPoint ==
    /\ \A i \in 1..Len(tokens) :
          tokens[i].type \in {"INT", "FLOAT"} =>
              LET e1 == DigitRunEnd(tokens[i].pos)
                  next == IF i < Len(tokens) THEN tokens[i + 1]
                          ELSE [type |-> "NONE", pos |-> pos]
              IN  IF e1 < Len(source) /\ DotThenDigit(e1)
                    THEN /\ tokens[i].type = "FLOAT"
                         /\ next.pos = DigitRunEnd(e1 + 1)
                    ELSE /\ tokens[i].type = "INT"
                         /\ next.pos = e1
                         /\ (/\ i < Len(tokens)
                             /\ e1 < Len(source)
                             /\ CharAt(e1) = ".")
                               => next.type =
                                    IF /\ e1 + 3 <= Len(source)
                                       /\ Span(e1, e1 + 3) = <<".", ".", ".">>
                                      THEN "DOTDOTDOT" ELSE "DOT"
    /\ (Returned /\ source = <<"1", ".", "2">>) =>
          /\ TokenTypes = <<"FLOAT", "EOF">>
          /\ tokens[1].value = [whole |-> 1, frac |-> <<"2">>]
    /\ (Returned /\ source = <<"1", ".", "a">>) =>
          TokenTypes = <<"INT", "DOT", "IDENT", "EOF">>
    /\ (Returned /\ source = <<"1", ".">>) =>
          TokenTypes = <<"INT", "DOT", "EOF">>
    /\ (Returned /\ source = <<"1", ".", "2", ".", "1">>) =>
          /\ TokenTypes = <<"FLOAT", "DOT", "INT", "EOF">>
          /\ tokens[1].value = [whole |-> 1, frac |-> <<"2">>]
          /\ tokens[3].value = 1

\* '1.2.1' has been tokenized
C11_Witness ==
    /\ Returned
    /\ source = <<"1", ".", "2", ".", "1">>
    /\ Len(tokens) = 4

----------------------------------------------------------------------------
(* Properties of the parser *)

ModuleReturned == parseState = "Module"

\* the values of the tokens before EOF
TokenValues == [i \in 1..(Len(tokens) - 1) |-> tokens[i].value]

\* the rung of the precedence ladder a node stands on
Tier(node) ==
    CASE node.kind = "BinaryOp" ->
           (CASE node.op = <<"|", "|">> -> 1
              [] node.op = <<"&", "&">> -> 2
              [] node.op \in {<<"=", "=">>, <<"!", "=">>} -> 3
              [] node.op \in {<<"<">>, <<">">>, <<"<", "=">>, <<">", "=">>} -> 4
              [] node.op \in {<<"+">>, <<"-">>} -> 6
              [] node.op \in {<<"*">>, <<"/">>, <<"%">>} -> 7)
      [] node.kind = "RangeExpr" -> 5
      [] node.kind = "UnaryOp" -> 8
      [] node.kind \in {"MemberAccess", "ModuleAccess", "IndexAccess",
                        "FunctionCall"} -> 9
      [] OTHER -> 10

\* every operand in the tree stands on a rung that needs no parentheses: a
\* left operand not below its operator, a right operand strictly above
\* (left associativity), both operands of 'to' strictly above it
RECURSIVE WellTiered(_)
WellTiered(node) ==
    CASE node.kind = "BinaryOp" ->
           /\ Tier(node.left) >= Tier(node)
           /\ Tier(node.right) > Tier(node)
           /\ WellTiered(node.left) /\ WellTiered(node.right)
      [] node.kind = "RangeExpr" ->
           /\ Tier(node.start) > 5
           /\ Tier(node.end) > 5
           /\ WellTiered(node.start) /\ WellTiered(node.end)
      [] node.kind = "UnaryOp" ->
           Tier(node.operand) >= 8 /\ WellTiered(node.operand)
      [] node.kind = "MemberAccess" ->
           Tier(node.object) >= 9 /\ WellTiered(node.object)
      [] OTHER -> TRUE

\* the token values of an expression without parentheses, left to right
RECURSIVE Yield(_)
Yield(node) ==
    CASE node.kind = "BinaryOp" ->
           Yield(node.left) \o <<node.op>> \o Yield(node.right)
      [] node.kind = "RangeExpr" ->
           Yield(node.start) \o <<(<<"t", "o">>)>> \o Yield(node.end)
      [] node.kind = "UnaryOp" -> <<node.op>> \o Yield(node.operand)
      [] node.kind = "MemberAccess" ->
           Yield(node.object) \o <<(<<".">>), node.member>>
      [] node.kind = "Identifier" -> <<node.name>>
      [] OTHER -> <<node.value>>

IdA == Identifier(<<"a">>)

\* the expression of the only statement of the module returned
OnlyExpr == ast.statements[1].expr

\* C12: the tree of an expression without parentheses reads back as its
\* tokens in order, and stands on the ladder or < and < equality <
\* comparison < range < additive < multiplicative < unary < postfix <
\* primary, the binary rungs but range associating to the left:
\* 'a+a*a' is BinaryOp(+, a, BinaryOp(*, a, a)), 'a-a-a' is
\* BinaryOp(-, BinaryOp(-, a, a), a), 'a<a to a' is
\* BinaryOp(<, a, RangeExpr(a, a)).
C12_Precedence ==
    /\ ModuleReturned =>
          /\ Len(ast.statements) = 1
          /\ ast.statements[1].kind = "ExpressionStatement"
          /\ WellTiered(OnlyExpr)
          /\ Yield(OnlyExpr) = TokenValues
    /\ (parseState # "ready" /\ source = <<"a", "+", "a", "*", "a">>) =>
          /\ ModuleReturned
          /\ OnlyExpr = BinaryOp(IdA, <<"+">>, BinaryOp(IdA, <<"*">>, IdA))
    /\ (parseState # "ready" /\ source = <<"a", "-", "a", "-", "a">>) =>
          /\ ModuleReturned
          /\ OnlyExpr = BinaryOp(BinaryOp(IdA, <<"-">>, IdA), <<"-">>, IdA)
    /\ (parseState # "ready"
          /\ source = <<"a", "<", "a", " ", "t", "o", " ", "a">>) =>
          /\ ModuleReturned
          /\ OnlyExpr = BinaryOp(IdA, <<"<">>, RangeExpr(IdA, IdA))

\* 'a<a to a' has been parsed into a comparison with a range on its right
C12_Witness ==
    /\ ModuleReturned
    /\ OnlyExpr.kind = "BinaryOp"
    /\ OnlyExpr.op = <<"<">>
    /\ OnlyExpr.right.kind = "RangeExpr"

----------------------------------------------------------------------------
(* Closure or parenthesized expression                                     *)

\* the tokens of type t among tokens p..q (cursor positions, from 0)
CountType(p, q, t) == Cardinality({i \in p..q : tokens[i + 1].type = t})

\* as many ')' as '(' among tokens p..q
Balanced(p, q) == CountType(p, q, "LPAREN") = CountType(p, q, "RPAREN")

\* the '(' at p has a ')' matching it by depth counting
HasMatch(p) == \E q \in (p + 1)..(Len(tokens) - 1) : Balanced(p, q)

\* the position of that ')': the first that balances the '(' at p
MatchOf(p) ==
    CHOOSE q \in (p + 1)..(Len(tokens) - 1) :
        Balanced(p, q) /\ \A r \in (p + 1)..(q - 1) : ~Balanced(p, r)

\* the position of the first token after q that is not a NEWLINE
AfterNewlines(q) ==
    CHOOSE r \in (q + 1)..(Len(tokens) - 1) :
        /\ tokens[r + 1].type # "NEWLINE"
        /\ \A k \in (q + 1)..(r - 1) : tokens[k + 1].type = "NEWLINE"

\* the ')' matching the '(' at p is followed, newlines skipped, by '=>'
ArrowAfterMatch(p) ==
    /\ tokens[p + 1].type = "LPAREN"
    /\ HasMatch(p)
    /\ tokens[AfterNewlines(MatchOf(p)) + 1].type = "ARROW"

\* what a method returned: the node (or the exception) and the cursor
Outcome(r) == <<r.node, r.pos>>

\* C13: parse_paren_or_closure, called at a '(', parses a closure exactly
\* when the ')' that matches the '(' by depth counting is followed, after
\* any newlines, by '=>': what it returns is then what parse_closure
\* returns, a Closure that ends beyond the arrow unless a ParseError is
\* raised. Otherwise it returns what the parenthesized branch returns: the
\* inner expression itself, with no node wrapped around it, the cursor just
\* past the matching ')'.
C13_ClosureOrParenthesized ==
    parseState = "paren_or_closure" =>
        LET self == ParserOf(tokens, source)
            p == savedPos
        IN  IF ArrowAfterMatch(p)
              THEN /\ ast.kind \in {"Closure", "ParseError"}
                   /\ ast.kind = "Closure" =>
                          parserPos > AfterNewlines(MatchOf(p)) + 1
                   /\ <<ast, parserPos>> =
                          Outcome(Call("parse_closure", self, p))
              ELSE /\ ast.kind # "ParseError" =>
                          /\ HasMatch(p)
                          /\ parserPos = MatchOf(p) + 1
                          /\ ast = Call("parse_expression", self,
                                       SkipNewlines(self, p + 1)).node
                   /\ <<ast, parserPos>> =
                          Outcome(ParseParenthesized(self, p))

\* '(x)' newline '=>x' was parsed as a closure
C13_Witness ==
    /\ parseState = "paren_or_closure"
    /\ ArrowAfterMatch(savedPos)
    /\ tokens[MatchOf(savedPos) + 2].type = "NEWLINE"
    /\ MatchOf(savedPos) = savedPos + 2
    /\ ast.kind = "Closure"

\* '(()=>x)': a parenthesized expression that is a closure, returned as it is
C13_ParenthesizedClosure ==
    /\ parseState = "paren_or_closure"
    /\ ~ArrowAfterMatch(savedPos)
    /\ ast.kind = "Closure"
    /\ parserPos = MatchOf(savedPos) + 1

----------------------------------------------------------------------------
(* The lookahead of _is_closure                                            *)

\* C20: _is_closure consumes no token: whatever it answers, and whether the
\* first token is a '(' or not and the '(' matched or not, the cursor after
\* the call is the cursor before it.
C20_LookaheadRestoresCursor ==
    parseState = "is_closure" => parserPos = savedPos

\* _is_closure answered True at a '(' after scanning to the arrow
C20_Witness ==
    /\ parseState = "is_closure"
    /\ lookahead
    /\ tokens[savedPos + 1].type = "LPAREN"
    /\ ArrowAfterMatch(savedPos)

\* _is_closure answered False at a '(' that no ')' matches
C20_UnmatchedParen ==
    /\ parseState = "is_closure"
    /\ ~lookahead
    /\ tokens[savedPos + 1].type = "LPAREN"
    /\ ~HasMatch(savedPos)

\* _is_closure answered False at a token that is not '('
C20_NotAtParen ==
    /\ parseState = "is_closure"
    /\ ~lookahead
    /\ tokens[savedPos + 1].type # "LPAREN"

----------------------------------------------------------------------------
(* Closures with an expression body                                        *)

\* where the first '=>' of a text ends
ArrowEnd(src) ==
    1 + CHOOSE k \in 1..(Len(src) - 1) :
            /\ src[k] = "=" /\ src[k + 1] = ">"
            /\ \A j \in 1..(k - 1) : ~(src[j] = "=" /\ src[j + 1] = ">")

\* the text e of '(x) => e'
BodyText(src) == SubSeq(src, ArrowEnd(src) + 1, Len(src))

\* '(x) => { return e }' for the text '(x) => e'
BlockBodied(src) ==
    SubSeq(src, 1, ArrowEnd(src))
      \o <<"{", " ", "r", "e", "t", "u", "r", "n", " ">>
      \o BodyText(src) \o <<" ", "}">>

\* a parse result r is that of one expression: a Module of a single
\* expression statement
IsExpression(r) ==
    /\ r.ok
    /\ Len(r.node.statements) = 1
    /\ r.node.statements[1].kind = "ExpressionStatement"

\* the closure has the Block that returns the expression of e as its body,
\* and the block-bodied text has parsed to the same AST
Desugared(e, blockBodied) ==
    IsExpression(e) =>
        /\ ast.statements[1].expr.kind = "Closure"
        /\ ast.statements[1].expr.body =
               Block(<<ReturnStatement(e.node.statements[1].expr)>>)
        /\ blockBodied.ok
        /\ blockBodied.node = ast

\* C14: for a text e that is an expression, the closure '(x) => e' is
\* returned as Closure(params, Block([ReturnStatement(expr)])) with expr
\* what e parses to, and '(x) => { return e }' parses to an equal AST.
C14_ExpressionBodyDesugared ==
    parseState = "Module" =>
        \A e \in {parse(BodyText(source))} :
            \A blockBodied \in {parse(BlockBodied(source))} :
                Desugared(e, blockBodied)

\* '(x)=>a+a...' was parsed: the body returns a BinaryOp
C14_Witness ==
    /\ parseState = "Module"
    /\ BodyText(source) = <<"a", "+", "a">>
    /\ Len(ast.statements[1].expr.params) = 1
    /\ ast.statements[1].expr.body.statements[1].kind = "ReturnStatement"
    /\ ast.statements[1].expr.body.statements[1].value.kind = "BinaryOp"

----------------------------------------------------------------------------
(* Raw blocks                                                              *)

\* the character at index i of the source (from 1) is outside the
\* double-quoted string literals of the raw text
OutsideString(i) ==
    /\ source[i] # "\""
    /\ Cardinality({j \in (Len(RawHead) + 1)..i : source[j] = "\""}) % 2 = 0

\* the braces ch outside string literals among the raw text up to index i
Braces(i, ch) ==
    Cardinality({j \in (Len(RawHead) + 1)..i :
                    source[j] = ch /\ OutsideString(j)})

\* index i holds the brace that closes the raw block
ClosesRawBlock(i) ==
    /\ source[i] = "}"
    /\ OutsideString(i)
    /\ Braces(i, "}") = Braces(i, "{") + 1

\* the brace depth of the raw block returns to zero before the end
Terminated == \E i \in (Len(RawHead) + 1)..Len(source) : ClosesRawBlock(i)

\* the index of the true closing brace
TrueClose ==
    CHOOSE i \in (Len(RawHead) + 1)..Len(source) :
        ClosesRawBlock(i) /\ \A j \in (Len(RawHead) + 1)..(i - 1) :
                                 ~ClosesRawBlock(j)

\* the text of the block up to, and excluding, its true closing brace
Payload == SubSeq(source, Len(RawHead) + 1, TrueClose - 1)

\* the raw text holds a string literal with an embedded '}'
HasStringWithBrace ==
    \E i \in (Len(RawHead) + 1)..(TrueClose - 1) :
        source[i] = "}" /\ ~OutsideString(i)

\* the source with '(n)' in place of the raw block
BlockReplaced ==
    <<"(", "n", ")">> \o SubSeq(source, TrueClose + 1, Len(source))

\* the Module returned holds the NativeBlock of the payload and then what
\* follows the block, as in r, the parse of the text with the block
\* replaced; or both parses are rejected
ResumedAs(r) ==
    /\ parseState = "Module" =>
           /\ ast.statements[1] = ExpressionStatement(NativeBlock(Payload))
           /\ r.ok
           /\ Tail(ast.statements) = Tail(r.node.statements)
    /\ parseState = "ParseError" => ~r.ok

\* C15: a source with a raw block whose text holds a double-quoted string
\* with an embedded '}' is not rejected by the lexer; the parser returns for
\* it a NativeBlock whose payload is the text up to, and excluding, the
\* true closing brace, and goes on with what follows that brace as it
\* would after any other expression.
C15_RawBlockExtraction ==
    (Terminated /\ HasStringWithBrace) =>
        /\ lexState \in {"scanning", "returned"}
        /\ parseState \in {"Module", "ParseError"} =>
               \A r \in {parse(BlockReplaced)} : ResumedAs(r)

\* C16: a raw block whose brace depth never returns to zero before the end
\* of the source makes parsing fail: no Module is returned.
C16_UnterminatedRawBlock ==
    ~Terminated => parseState # "Module"

----------------------------------------------------------------------------
(* Parse errors                                                            *)

\* what can complete a text cut before a token: a name or nothing, then
\* closing parentheses and braces
Completions ==
    {n \o c : n \in {<<>>, <<"a">>},
              c \in SeqsUpTo({")", "}"}, MaxSoup)}

\* the tokens before cursor p fit the grammar: the source cut before the
\* token at p can be completed to a text that parses
FitsBefore(p) ==
    \E c \in Completions :
        parse(SubSeq(source, 1, tokens[p + 1].pos) \o c).ok

\* C17: a ParseError carries the token at the cursor where parsing
\* stopped, its line, column and kind, and every token before it fits the
\* grammar: parsing stopped at the first token that does not. When a Module
\* is returned no token was passed over: the cursor is at EOF and every
\* '{' has had its '}'.
C17_ParseErrors ==
    /\ parseState = "ParseError" =>
           /\ parserPos < Len(tokens)
           /\ ast = [kind |-> "ParseError", token |-> tokens[parserPos + 1]]
           /\ FitsBefore(parserPos)
    /\ parseState = "Module" =>
           /\ parserPos = Len(tokens) - 1
           /\ Cardinality(TokensOfType("LBRACE")) =
                  Cardinality(TokensOfType("RBRACE"))

----------------------------------------------------------------------------
(* The names of class definitions                                          *)

\* every ClassDef in the tree under node has the name of the binding it
\* initializes, or the empty name; name is the binding's name when node is
\* the initializer of a binding and empty otherwise
RECURSIVE ClassNamed(_, _)
ClassNamed(node, name) ==
    CASE node.kind = "Module" ->
           \A i \in 1..Len(node.statements) :
               ClassNamed(node.statements[i], <<>>)
      [] node.kind = "VariableDecl" -> ClassNamed(node.value, node.name)
      [] node.kind = "Assignment" ->
           ClassNamed(node.target, <<>>) /\ ClassNamed(node.value, <<>>)
      [] node.kind = "ExpressionStatement" -> ClassNamed(node.expr, <<>>)
      [] node.kind = "ReturnStatement" -> ClassNamed(node.value, <<>>)
      [] node.kind = "Block" ->
           \A i \in 1..Len(node.statements) :
               ClassNamed(node.statements[i], <<>>)
      [] node.kind = "Closure" -> ClassNamed(node.body, <<>>)
      [] node.kind = "ArrayLiteral" ->
           \A i \in 1..Len(node.elements) :
               ClassNamed(node.elements[i], <<>>)
      [] node.kind = "ClassDef" ->
           /\ node.name = name
           /\ \A i \in 1..Len(node.members) :
                  ClassNamed(node.members[i], <<>>)
      [] OTHER -> TRUE

\* C18: in the Module returned, a ClassDef that is the initializer of a
\* binding has the binding's name, and every other ClassDef has the empty
\* name.
C18_ClassNames == ModuleReturned => ClassNamed(ast, <<>>)

\* 'e=boy{keep d=boy{}}' was parsed: the class assigned to e has no name, the
\* class bound to its member d has the name d
C18_Witness ==
    /\ ModuleReturned
    /\ ast.statements[1].kind = "Assignment"
    /\ ast.statements[1].value.kind = "ClassDef"
    /\ ast.statements[1].value.name = <<>>
    /\ Len(ast.statements[1].value.members) = 1
    /\ ast.statements[1].value.members[1].kind = "VariableDecl"
    /\ ast.statements[1].value.members[1].name = <<"d">>
    /\ ast.statements[1].value.members[1].value.kind = "ClassDef"
    /\ ast.statements[1].value.members[1].value.name = <<"d">>

----------------------------------------------------------------------------
(* Expression statements and assignments                                   *)

\* the tokens '=', '+=', '-=', '*=', '/=' of the token list
AssignTokens ==
    {i \in 1..Len(tokens) :
        tokens[i].type \in {"ASSIGN", "PLUS_ASSIGN", "MINUS_ASSIGN",
                            "STAR_ASSIGN", "SLASH_ASSIGN"}}

\* the first of them
FirstAssign ==
    CHOOSE i \in AssignTokens : \A j \in AssignTokens : i <= j

\* the text before a token, and the text after it
TextBefore(i) == SubSeq(source, 1, tokens[i].pos)

TextAfter(i) ==
    SubSeq(source, tokens[i].pos + Len(tokens[i].value) + 1, Len(source))

\* with left and right the parses of the texts before and after the
\* operator: when both are expressions, the statement is their Assignment
AssignmentOf(left, op, right) ==
    (IsExpression(left) /\ IsExpression(right)) =>
        /\ parseState # "ParseError"
        /\ ModuleReturned =>
               ast.statements =
                  <<Assignment(left.node.statements[1].expr, op,
                               right.node.statements[1].expr)>>

\* C19: a statement that begins with no statement keyword is parsed as an
\* expression. When an expression is followed by '=', '+=', '-=', '*=' or
\* '/=' and an expression, the statement is the Assignment of that operator
\* with the first expression, whatever its kind, as target and the second
\* as value; a statement with none of these operators is an
\* ExpressionStatement.
C19_AssignmentOrExpression ==
    Returned =>
        IF AssignTokens = {}
          THEN ModuleReturned =>
                  /\ Len(ast.statements) = 1
                  /\ ast.statements[1].kind = "ExpressionStatement"
          ELSE \A left \in {parse(TextBefore(FirstAssign))} :
                  \A right \in {parse(TextAfter(FirstAssign))} :
                      AssignmentOf(left, tokens[FirstAssign].value, right)

\* 'a+b' '*=' 'b*c' was parsed as the Assignment to a BinaryOp
C19_Witness ==
    /\ ModuleReturned
    /\ AssignTokens # {}
    /\ ast.statements[1].kind = "Assignment"
    /\ ast.statements[1].target.kind = "BinaryOp"
    /\ ast.statements[1].op = <<"*", "=">>
    /\ ast.statements[1].value.kind = "BinaryOp"

\* 'a==b' was parsed as an ExpressionStatement
C19_ExpressionStatement ==
    /\ ModuleReturned
    /\ AssignTokens = {}
    /\ ast.statements[1].kind = "ExpressionStatement"
    /\ ast.statements[1].expr.kind = "BinaryOp"

----------------------------------------------------------------------------
(* Termination of discover_modules                                         *)

\* a compilation run in which a step that can be taken is taken in the end
SpecFair == Spec /\ WF_vars(Next)

\* the dotted paths of the calls of visit() that have not returned
InProgress == {stack[i].dotted : i \in 1..Len(stack)}

\* a call of visit() at work on its imports has its dotted path in visited
VisitedBeforeImports == InProgress \subseteq visited

\* visit() called with a dotted path that is in visited returns at once:
\* nothing is read or parsed, nothing is appended, nothing is reported
SkipsVisited ==
    (pc = "discover" /\ call # NoCall /\ call.dotted \in visited) =>
        /\ call' = NoCall
        /\ reads' = reads
        /\ parses' = parses
        /\ stack' = stack
        /\ ordered' = ordered
        /\ pc' = pc
        /\ exitCause' = exitCause

\* discover_modules has returned, or the run has exited
DiscoverEnded == pc \notin {"start", "discover"}

\* C21: discover_modules terminates, import cycles or not: a dotted path is
\* in visited while its module's imports are processed, a call of visit()
\* for a dotted path in visited returns without reading the file and
\* without an error, and in the end discover_modules has returned or the
\* run has exited.
C21_DiscoverTerminates ==
    /\ []VisitedBeforeImports
    /\ [][SkipsVisited]_vars
    /\ <>DiscoverEnded

\* discover_modules returned a list with two modules that import each other
C21_Witness ==
    /\ pc = "parse"
    /\ \E i, j \in 1..Len(ordered) :
          /\ i # j
          /\ DottedAt(j) \in ImportsOf(ordered[i])
          /\ DottedAt(i) \in ImportsOf(ordered[j])

----------------------------------------------------------------------------
(* The files of the list discover_modules returns                          *)

\* the file of the i-th module of the list
FileAt(i) == ordered[i].file

----------------------------------------------------------------------------
(* The token cursor after a raw block                                      *)

\* the token the cursor has just passed
TokenPassed == tokens[parserPos]

\* C22: after parse_native_block on a raw block whose brace depth returns
\* to zero, the cursor is right after the '}' token at the offset of the
\* brace that closes the block: the tokens inside the raw text are passed
\* over, and no token after that brace is.
C22_CursorAfterClosingBrace ==
    (parseState = "native_block" /\ Terminated) =>
        /\ parserPos >= 1
        /\ TokenPassed.type = "RBRACE"
        /\ TokenPassed.pos = TrueClose - 1

----------------------------------------------------------------------------
(* The range operator                                                      *)

\* the kinds of the tokens of an addition-level expression of names
AdditionLevel == {"IDENT", "BANG", "DOT", "PLUS", "MINUS", "STAR"}

\* tokens i to j are all of an addition-level expression
AdditionTokens(i, j) == \A k \in i..j : tokens[k].type \in AdditionLevel

\* token j is a 'to' that follows a 'to' and an addition-level expression
SecondTo(j) ==
    /\ tokens[j].type = "TO"
    /\ \E i \in 1..(j - 1) :
          tokens[i].type = "TO" /\ AdditionTokens(i + 1, j - 1)

\* the first of them
FirstSecondTo ==
    CHOOSE j \in 1..Len(tokens) :
        SecondTo(j) /\ \A k \in 1..(j - 1) : ~SecondTo(k)

\* the source is 'a to b', with a and b of the addition level
OneRange ==
    /\ Cardinality(TokensOfType("TO")) = 1
    /\ \A k \in 1..(Len(tokens) - 1) :
          tokens[k].type \in AdditionLevel \cup {"TO"}

\* no RangeExpr of the expression has a RangeExpr as its start or end
RECURSIVE NoNestedRange(_)
NoNestedRange(node) ==
    CASE node.kind = "RangeExpr" ->
           /\ node.start.kind # "RangeExpr"
           /\ node.end.kind # "RangeExpr"
           /\ NoNestedRange(node.start)
           /\ NoNestedRange(node.end)
      [] node.kind = "BinaryOp" ->
           NoNestedRange(node.left) /\ NoNestedRange(node.right)
      [] node.kind = "UnaryOp" -> NoNestedRange(node.operand)
      [] node.kind = "MemberAccess" -> NoNestedRange(node.object)
      [] OTHER -> TRUE

\* the statement is RangeExpr(a, b), a and b the expressions of left, right
RangeOf(left, right) ==
    /\ ModuleReturned
    /\ IsExpression(left)
    /\ IsExpression(right)
    /\ ast.statements =
          <<ExpressionStatement(RangeExpr(left.node.statements[1].expr,
                                          right.node.statements[1].expr))>>

\* C23: 'a to b' is parsed as RangeExpr(a, b); a second 'to' after a range
\* and an addition-level expression is the token of a ParseError; and no
\* RangeExpr returned has a RangeExpr as start or end.
C23_RangeNonAssociative ==
    parseState \in {"Module", "ParseError"} =>
        /\ (\E j \in 1..Len(tokens) : SecondTo(j)) =>
               /\ parseState = "ParseError"
               /\ ast.token = tokens[FirstSecondTo]
        /\ ModuleReturned => NoNestedRange(ast.statements[1].expr)
        /\ OneRange =>
               \A i \in TokensOfType("TO") :
                   \A left \in {parse(TextBefore(i))} :
                       \A right \in {parse(TextAfter(i))} :
                           RangeOf(left, right)

\* 'a to a to a': the ParseError at the second 'to'
C23_Witness ==
    /\ parseState = "ParseError"
    /\ source = <<"a", " ", "t", "o", " ", "a", " ", "t", "o", " ", "a">>
    /\ ast.token.type = "TO"
    /\ ast.token.pos = 7

\* 'a to a+a' was parsed as the RangeExpr of a and a+a
C23_RangeReturned ==
    /\ ModuleReturned
    /\ OneRange
    /\ ast.statements[1].expr.kind = "RangeExpr"
    /\ ast.statements[1].expr.end.kind = "BinaryOp"

----------------------------------------------------------------------------
(* Termination of parse_module                                             *)

\* the Parser of the tokens the lexer returned
TheParser == ParserOf(tokens, source)

\* the cursors at a token
Cursors == 0..(Len(tokens) - 1)

\* the token list ends in EOF, and reading at or past its end yields EOF
PastEndIsEof ==
    /\ Last(tokens).type = "EOF"
    /\ \A p \in Len(tokens)..(Len(tokens) + 2) :
          /\ Current(TheParser, p) = Last(tokens)
          /\ PeekToken(TheParser, p - 2, 2) = Last(tokens)

\* the body of the statement loops: parse_statement at a token that is not
\* EOF raises, or returns with the cursor further on and not beyond the end
StatementAdvances ==
    \A p \in Cursors :
        tokens[p + 1].type # "EOF" =>
            \A r \in {Call("parse_statement", TheParser, p)} :
                r.ok => (p < r.pos /\ r.pos <= Len(tokens))

\* the loop of _is_closure ends at a cursor further on and not beyond the
\* end, and _is_closure leaves the cursor where it was
LookaheadAdvances ==
    \A p \in Cursors :
        tokens[p + 1].type = "LPAREN" =>
            /\ ScanParens(TheParser, p + 1, 1).pos \in (p + 1)..Len(tokens)
            /\ IsClosure(TheParser, p).pos = p

\* the fast-forward of _extract_raw_js, from any cursor and for any closing
\* offset, ends at a cursor further on and not beyond the end
FastForwardAdvances ==
    \A p \in Cursors : \A target_pos \in 0..Len(source) :
        \A q \in {PastClosingRbrace(TheParser, ToFirstRbrace(TheParser, p),
                                     target_pos)} :
            p < q /\ q <= Len(tokens)

\* parse_module on the tokens ends, with a Module or with a ParseError
ParseModuleEnds ==
    \A r \in {Call("parse_module", TheParser, 0)} :
        \/ r.ok /\ r.node.kind = "Module" /\ r.pos \in Cursors \cup {Len(tokens)}
        \/ ~r.ok /\ r.node.kind = "ParseError" /\ r.pos \in Cursors

----------------------------------------------------------------------------
(* The lexer's rules inside raw blocks                                     *)

\* what the lexer's rules reject in the source from index i (from 1) on,
\* read in mode "code", "comment" or "string": a ';' or a single quote in
\* code, an '&' or '|' not followed by itself, a double-quoted string that
\* reaches a newline or the end of the source
RECURSIVE RejectsFrom(_, _)
RejectsFrom(i, mode) ==
    IF i > Len(source) THEN mode = "string"
    ELSE LET ch == source[i]
         IN  CASE mode = "comment" ->
                    RejectsFrom(i + 1, IF ch = "\n" THEN "code" ELSE "comment")
               [] mode = "string" ->
                    IF ch = "\n" THEN TRUE
                    ELSE RejectsFrom(i + 1,
                                     IF ch = "\"" THEN "code" ELSE "string")
               [] OTHER ->
                    CASE ch \in {";", "'"} -> TRUE
                      [] ch \in {"&", "|"} ->
                           IF i < Len(source) /\ source[i + 1] = ch
                             THEN RejectsFrom(i + 2, "code")
                             ELSE TRUE
                      [] ch = "#" -> RejectsFrom(i + 1, "comment")
                      [] ch = "\"" -> RejectsFrom(i + 1, "string")
                      [] OTHER -> RejectsFrom(i + 1, "code")

\* the raw text holds something the lexer rejects
RawTextRejected == RejectsFrom(Len(RawHead) + 1, "code")

\* the source scan of _extract_raw_js finds the brace closing the block
ScanAccepts == ScanRawDepth(source, Len(RawHead), 1) = 0

LexerRaised == lexState = "LexerError"

\* no parser ran and there is no AST
NoAst == parseState = "ready" /\ ast = NoneValue

\* a step of tokenize moves the cursor on, or ends the scan
LexerAdvances ==
    lexState = "scanning" =>
        \/ pos' > pos /\ lexState' \in {"scanning", "returned"}
        \/ lexState' \in {"returned", "LexerError"}

\* C25: the raw text of a block is tokenized with the rest of the file
\* before the parser runs: when it holds something the lexer rejects,
\* tokenize does not return, the parser does not run and there is no AST,
\* whether or not the source scan of the raw block would find its closing
\* brace; tokenize, whose scan has a step to take while it has not raised
\* and moves on with every step, ends with LexerError, which it raises on
\* no other text.
C25_RawTextIsTokenized ==
    /\ [](RawTextRejected =>
             /\ lexState \in {"scanning", "LexerError"}
             /\ lexState = "scanning" => pos < Len(source)
             /\ NoAst)
    /\ [](LexerRaised => RawTextRejected)
    /\ [][LexerAdvances]_vars

\* 'native=>{' then a string spanning a newline and '}': the scan of the
\* raw block finds the closing brace, the lexer has raised
C25_Witness ==
    /\ source = RawHead \o <<"\"", "\n", "\"", "}">>
    /\ ScanAccepts
    /\ LexerRaised
    /\ NoAst

----------------------------------------------------------------------------
(* Commitment to closure parsing                                           *)

TypeAt(q) == tokens[q + 1].type

\* the position of the first token from q on that is not a NEWLINE
NextCode(q) ==
    CHOOSE r \in q..(Len(tokens) - 1) :
        /\ TypeAt(r) # "NEWLINE"
        /\ \A k \in q..(r - 1) : TypeAt(k) = "NEWLINE"

\* the first token that does not fit a parameter list whose next
\* parameter starts at q: a parameter is a name, '...' if any, ':' and a
\* type name if any; parameters are separated by ','; the list ends at
\* ')'. -1 when every token up to the ')' fits.
RECURSIVE OffendingParam(_)
OffendingParam(q) ==
    LET r == NextCode(q)
    IN  IF TypeAt(r) # "IDENT" THEN r
        ELSE LET d == IF TypeAt(r + 1) = "DOTDOTDOT" THEN r + 2 ELSE r + 1
                 e == IF TypeAt(d) = "COLON" THEN d + 2 ELSE d
             IN  IF TypeAt(d) = "COLON" /\ TypeAt(d + 1) \notin {"IDENT", "NATIVE"}
                   THEN d + 1
                 ELSE IF TypeAt(e) = "COMMA" THEN OffendingParam(e + 1)
                 ELSE IF TypeAt(NextCode(e)) = "RPAREN" THEN -1
                 ELSE NextCode(e)

\* the first token after the '(' at p that does not fit a parameter list
FirstOffending(p) ==
    IF TypeAt(NextCode(p + 1)) = "RPAREN" THEN -1 ELSE OffendingParam(p + 1)

\* C27: when the ')' matching a '(' is followed by '=>' and the tokens
\* between them are not a parameter list, parse_paren_or_closure raises
\* ParseError at the first token that does not fit, the cursor on it, also
\* when the parenthesized branch would have returned an expression; when
\* they are a parameter list no ParseError is raised before the arrow.
C27_CommittedToClosure ==
    (parseState = "paren_or_closure" /\ ArrowAfterMatch(savedPos)) =>
        LET off == FirstOffending(savedPos)
        IN  IF off # -1
              THEN /\ ast = [kind |-> "ParseError", token |-> tokens[off + 1]]
                   /\ parserPos = off
              ELSE ast.kind = "ParseError" =>
                       parserPos > AfterNewlines(MatchOf(savedPos))

\* '((x))=>x': the parenthesized branch would return x; ParseError was
\* raised at the second '('
C27_Witness ==
    /\ parseState = "paren_or_closure"
    /\ ArrowAfterMatch(savedPos)
    /\ FirstOffending(savedPos) = savedPos + 1
    /\ ParseParenthesized(ParserOf(tokens, source), savedPos).ok
    /\ ast.kind = "ParseError"
    /\ ast.token.type = "LPAREN"

====
